---------------------------- MODULE Spec2Model ----------------------------
(***************************************************************************)
(* Model of the TGLinkBase auto filter bot (src/bot.py).                   *)
(*                                                                         *)
(* Spec      : the verification gate.  /start handlers (verified_ and      *)
(*             watch_ links) run as interleaved coroutines, one step per   *)
(*             await; the two Flask verification pages, the admin /verify  *)
(*             toggle, result-page link creation, the passage of time and  *)
(*             MongoDB's TTL monitor are the other actions.                *)
(* LiveSpec  : Spec with the fairness the scheduler and the TTL monitor    *)
(*             give.                                                       *)
(* SearchSpec: get_search_results, one step per catalog query.             *)
(* FuzzySpec : find_corrected_matches applied to a catalog, a cleaned      *)
(*             query and a limit.                                          *)
(* NormSpec  : clean_text applied to a caption and to its own result.      *)
(* SessionSpec: a subscriber's search session with verification off: the   *)
(*             search handler and the next, previous, filter and back      *)
(*             callbacks, one step per await with one handler in flight,   *)
(*             while posts are saved to and deleted from the catalog.      *)
(*             Telegram and database calls are taken to return.            *)
(* IndexSpec : index_channel_handler, one step per await; get_messages,    *)
(*             find_one and insert_one return or raise; the scanner is     *)
(*             run again when it is done.  IndexLiveSpec adds that the     *)
(*             event loop resumes it.                                      *)
(* IngestSpec: two scanners and save_post on a new channel post,           *)
(*             interleaved.                                                *)
(* BroadcastSpec: broadcast_messages with its send_worker tasks and the    *)
(*             loop of broadcast_handler; a send returns or raises.        *)
(* ReporterSpec: the automatic broadcast with its progress reporter and    *)
(*             the fairness of the event loop.                             *)
(* TwinSpec  : the same subscribers put through the automatic and the      *)
(*             operator's broadcast, one after the other.                  *)
(* NotifySpec: new posts, the /notify toggle and the broadcasts they       *)
(*             start.                                                      *)
(* PoolSpec  : searches at their fuzzy stage with the thread pool, next    *)
(*             to a redemption and an operator's broadcast.                *)
(* DeleteSpec: /delete_movie, /delete_all_movies and the presses of        *)
(*             their confirm buttons.                                      *)
(* LinkSpec  : the verification links of result pages, as rendered for     *)
(*             a search and for a callback, and their redemption.          *)
(* RaceSpec  : SessionSpec's search and add-filter handler next to a       *)
(*             second handler of the same subscriber.                      *)
(*                                                                         *)
(* Time is kept relative: a token carries its age (now - created_at) and   *)
(* user_last_start_time[u] holds the seconds elapsed since u's last        *)
(* accepted /start.  Each is compared with one value only (3600 s and      *)
(* 2 s): the elapsed time saturates there, and an age below 3600 s is      *)
(* kept as 0.                                                              *)
(***************************************************************************)
EXTENDS Integers, Sequences, FiniteSets, TLC

VARIABLES
    movies_col,            \* catalog collection: the documents in natural order
    verify_col,            \* verification collection (set of documents)
    verification_mode,     \* settings_col {"key": "verification_mode"}
    user_last_start_time,  \* dict user -> seconds since last accepted /start
    req,                   \* the /start handler coroutines
    nextToken,             \* number of tokens drawn from secrets.token_urlsafe
    delivered,             \* history: copies made through each token's verified link
    out,                   \* the bot reply the step just taken sent, if any
    search,                \* the frame of the get_search_results call in progress
    fuzz,                  \* a find_corrected_matches call: arguments and return value
    norm,                  \* a caption put through clean_text, and through it again
    users_col,             \* users collection: subscriber -> last_query (<<>>: none)
    pages,                 \* subscriber -> the result message the bot last showed them
    cb,                    \* the search or callback handler in progress
    channel,               \* the source channel: message id -> message
    scan,                  \* the index_channel_handler coroutines
    post,                  \* the save_post handler of the newest channel post
    user_ids,              \* users collection: the _id of every document
    bcast,                 \* a broadcast: its workers and counters
    runs,                  \* history: the broadcasts that are over
    global_notify,         \* settings_col {"key": "global_notify"}
    notify,                \* users collection: _id -> the notify field
    pool,                  \* the fuzzy stage of each search: where it runs
    deletion,              \* the delete buttons shown, and who pressed last
    human,                 \* token -> the user whose interaction created it
    racer                  \* a second handler of the subscriber's updates

gateVars == <<movies_col, verify_col, verification_mode, user_last_start_time,
              req, nextToken, delivered, out>>

searchVars == <<search>>

pureVars == <<fuzz, norm>>

sessionVars == <<users_col, pages, cb>>

\* The indexing scanner, real-time ingestion and the broadcast engine.
moreVars == <<pool, deletion, human, racer>>
auxVars == <<runs, global_notify, notify, moreVars>>
jobVars == <<channel, scan, post, user_ids, bcast, auxVars>>
mainJobVars == <<channel, scan, post, user_ids, bcast, runs, global_notify,
                 notify>>

\* What the gate's steps leave alone.
nonGateVars == <<searchVars, pureVars, sessionVars, jobVars>>

\* What the steps of get_search_results leave alone.
nonSearchVars == <<gateVars, pureVars, sessionVars, jobVars>>

vars == <<gateVars, searchVars, pureVars, sessionVars, jobVars>>

\* ------------------------------------------------------------------ bounds
MaxTokens == 1
\* The page size (the RESULTS_COUNT environment variable).
RESULTS_COUNT == 2

\* ------------------------------------------------------- program constants
CHANNEL_ID == 1
TTL_SECONDS == 3600
THROTTLE_SECONDS == 2
SCORE_CUTOFF == 80

Users == {1, 2}
Tokens == 1..MaxTokens
\* Two /start coroutines: the least number that can interleave.
Requests == {1, 2}

Min(a, b) == IF a < b THEN a ELSE b

\* ------------------------------------------------------------ documents
\* A catalog document (MovieSchema).  The gate only reads chat_id, message_id
\* and views_count; the text fields are used by the search pipeline.
Movie(c, m, t, tc, y, v) ==
    [chat_id |-> c, message_id |-> m, title |-> t, title_clean |-> tc,
     year |-> y, views_count |-> v]

\* The catalog the gate runs against: message id 1 was indexed from two
\* source channels (the multi-channel case of line 150), under two titles.
GateCatalog ==
    << Movie(1, 1, <<"a", "b">>, <<"a", "b">>, 0, 0),
       Movie(2, 1, <<"b", "a">>, <<"b", "a">>, 0, 0) >>

\* ------------------------------------------------------------------ text
\* Text is a sequence of one-character strings.
UpperLetters ==
    << "A", "B", "C", "D", "E", "F", "G", "H", "I", "J", "K", "L", "M",
       "N", "O", "P", "Q", "R", "S", "T", "U", "V", "W", "X", "Y", "Z" >>

LowerLetters ==
    << "a", "b", "c", "d", "e", "f", "g", "h", "i", "j", "k", "l", "m",
       "n", "o", "p", "q", "r", "s", "t", "u", "v", "w", "x", "y", "z" >>

Digits == << "0", "1", "2", "3", "4", "5", "6", "7", "8", "9" >>

Range(f) == {f[i] : i \in DOMAIN f}

\* str.lower()
LowerChar(c) ==
    IF c \in Range(UpperLetters)
    THEN LowerLetters[CHOOSE i \in DOMAIN UpperLetters : UpperLetters[i] = c]
    ELSE c

Lower(s) == [i \in 1..Len(s) |-> LowerChar(s[i])]

\* \d, \s and \w of the re module.  Of the whitespace characters only the
\* blank occurs: captions and queries are single lines.
IsDigit(c) == c \in Range(Digits)
IsSpace(c) == c = " "
IsWordChar(c) ==
    c \in Range(Digits) \cup Range(LowerLetters) \cup Range(UpperLetters)
          \cup {"_"}

\* int() of one digit
DigitVal(c) == (CHOOSE i \in DOMAIN Digits : Digits[i] = c) - 1

\* p occurs in s as a contiguous run of characters.
IsSubstr(p, s) ==
    \E i \in 0..(Len(s) - Len(p)) : SubSeq(s, i + 1, i + Len(p)) = p

\* {"$regex": re.escape(p), "$options": "i"} applied to field value s
RegexMatchI(p, s) == IsSubstr(Lower(p), Lower(s))

\* The documents of a sequence that satisfy Keep, in their order.
RECURSIVE FilterSeq(_, _)
FilterSeq(docs, keep) ==
    IF docs = <<>> THEN <<>>
    ELSE IF Head(docs) \in keep
         THEN <<Head(docs)>> \o FilterSeq(Tail(docs), keep)
         ELSE FilterSeq(Tail(docs), keep)

\* s without the characters at the positions D: what re.sub(pattern, '', s)
\* leaves when the matches of the pattern cover D.
RECURSIVE DropIdx(_, _, _)
DropIdx(s, D, i) ==
    IF i > Len(s) THEN <<>>
    ELSE (IF i \in D THEN <<>> ELSE <<s[i]>>) \o DropIdx(s, D, i + 1)

\* re.sub(pattern, '', s) for a pattern whose match at position i ends at
\* ends[i] (0: no match there); matches of the patterns used never overlap.
SubEmpty(s, ends) ==
    DropIdx(s, UNION {i..ends[i] : i \in {k \in DOMAIN ends : ends[k] # 0}}, 1)

\* (19|20)\d{2} at position i
YearShape(s, i) ==
    /\ i + 3 <= Len(s)
    /\ <<s[i], s[i + 1]>> \in {<<"1", "9">>, <<"2", "0">>}
    /\ IsDigit(s[i + 2])
    /\ IsDigit(s[i + 3])

\* \b(19|20)\d{2}\b matches at position i
YearWordAt(s, i) ==
    /\ YearShape(s, i)
    /\ i = 1 \/ ~IsWordChar(s[i - 1])
    /\ i + 3 = Len(s) \/ ~IsWordChar(s[i + 4])

\* (?<!\d)(19|20)\d{2}(?!\d) matches at position i
YearDigitAt(s, i) ==
    /\ YearShape(s, i)
    /\ i = 1 \/ ~IsDigit(s[i - 1])
    /\ i + 3 = Len(s) \/ ~IsDigit(s[i + 4])

\* re.sub(r'(?<!\d)(19|20)\d{2}(?!\d)', '', s)
RemoveYearDigits(s) ==
    SubEmpty(s, [i \in 1..Len(s) |-> IF YearDigitAt(s, i) THEN i + 3 ELSE 0])

\* re.sub(r'\b(19|20)\d{2}\b', '', s)
RemoveYearWords(s) ==
    SubEmpty(s, [i \in 1..Len(s) |-> IF YearWordAt(s, i) THEN i + 3 ELSE 0])

\* re.sub(r'[^a-z0-9\s]', ' ', text)
NonAlnumToSpace(s) ==
    [i \in 1..Len(s) |->
        IF s[i] \in Range(LowerLetters) \cup Range(Digits) \cup {" "}
        THEN s[i] ELSE " "]

\* str.split(): the maximal runs of non-blank characters
RECURSIVE Words(_)
Words(s) ==
    IF s = <<>> THEN <<>>
    ELSE IF IsSpace(Head(s)) THEN Words(Tail(s))
    ELSE LET n == CHOOSE k \in 1..Len(s) :
                      /\ \A j \in 1..k : ~IsSpace(s[j])
                      /\ k = Len(s) \/ IsSpace(s[k + 1])
         IN  <<SubSeq(s, 1, n)>> \o Words(SubSeq(s, n + 1, Len(s)))

\* sep.join(words)
RECURSIVE Join(_, _)
Join(words, sep) ==
    IF words = <<>> THEN <<>>
    ELSE IF Len(words) = 1 THEN Head(words)
    ELSE Head(words) \o sep \o Join(Tail(words), sep)

\* str.strip()
RECURSIVE Strip(_)
Strip(s) ==
    IF s = <<>> THEN <<>>
    ELSE IF IsSpace(Head(s)) THEN Strip(Tail(s))
    ELSE IF IsSpace(s[Len(s)]) THEN Strip(SubSeq(s, 1, Len(s) - 1))
    ELSE s

STOP_WORDS ==
    { <<"m", "o", "v", "i", "e">>, <<"m", "o", "v", "i", "e", "s">>,
      <<"f", "i", "l", "m">>, <<"f", "i", "l", "m", "s">>,
      <<"c", "i", "n", "e", "m", "a">>, <<"s", "h", "o", "w">>,
      <<"s", "e", "r", "i", "e", "s">>, <<"s", "e", "a", "s", "o", "n">>,
      <<"e", "p", "i", "s", "o", "d", "e">>, <<"f", "u", "l", "l">>,
      <<"l", "i", "n", "k">>, <<"l", "i", "n", "k", "s">>,
      <<"d", "o", "w", "n", "l", "o", "a", "d">>,
      <<"w", "a", "t", "c", "h">>, <<"o", "n", "l", "i", "n", "e">>,
      <<"f", "r", "e", "e">>, <<"a", "l", "l">>, <<"p", "a", "r", "t">>,
      <<"u", "r", "l">>, <<"h", "i", "n", "d", "i">>,
      <<"b", "e", "n", "g", "a", "l", "i">>,
      <<"b", "a", "n", "g", "l", "a">>,
      <<"e", "n", "g", "l", "i", "s", "h">>, <<"t", "a", "m", "i", "l">>,
      <<"t", "e", "l", "u", "g", "u">>,
      <<"k", "a", "n", "n", "a", "d", "a">>,
      <<"m", "a", "l", "a", "y", "a", "l", "a", "m">>,
      <<"k", "o", "r", "e", "a", "n">>,
      <<"j", "a", "p", "a", "n", "e", "s", "e">>,
      <<"c", "h", "i", "n", "e", "s", "e">>,
      <<"s", "p", "a", "n", "i", "s", "h">>,
      <<"f", "r", "e", "n", "c", "h">>, <<"d", "u", "b", "b", "e", "d">>,
      <<"d", "u", "a", "l">>, <<"a", "u", "d", "i", "o">>, <<"s", "u", "b">>,
      <<"e", "s", "u", "b">>, <<"s", "u", "b", "b", "e", "d">>,
      <<"o", "r", "g">>, <<"o", "r", "i", "g", "i", "n", "a", "l">>,
      <<"h", "d">>, <<"f", "h", "d">>, <<"4", "k">>, <<"8", "k">>,
      <<"1", "0", "8", "0", "p">>, <<"7", "2", "0", "p">>,
      <<"4", "8", "0", "p">>, <<"3", "6", "0", "p">>, <<"2", "4", "0", "p">>,
      <<"c", "a", "m">>, <<"h", "d", "c", "a", "m">>, <<"r", "i", "p">>,
      <<"w", "e", "b">>, <<"w", "e", "b", "r", "i", "p">>,
      <<"h", "d", "r", "i", "p">>, <<"b", "l", "u", "r", "a", "y">>,
      <<"d", "v", "d">>, <<"d", "v", "d", "s", "c", "r">>,
      <<"h", "e", "v", "c">>, <<"x", "2", "6", "4">>, <<"x", "2", "6", "5">>,
      <<"1", "0", "b", "i", "t">>, <<"6", "0", "f", "p", "s">>,
      <<"h", "d", "r">>, <<"a", "m", "z", "n">>, <<"n", "f">>,
      <<"h", "u", "l", "u">>, <<"m", "p", "4">>, <<"m", "k", "v">> }

\* clean_text(text): the title_clean of a caption
clean_text(text) ==
    LET lowered == Lower(text)
        noYear == RemoveYearDigits(lowered)
        words == Words(NonAlnumToSpace(noYear))
        filtered_words == SelectSeq(words, LAMBDA w : w \notin STOP_WORDS)
    IN  Join(filtered_words, <<>>)

\* extract_year(text); None is 0
extract_year(text) ==
    LET M == {i \in 1..Len(text) : YearWordAt(text, i)} IN
    IF M = {} THEN 0
    ELSE LET i == CHOOSE k \in M : \A j \in M : k <= j IN
         1000 * DigitVal(text[i]) + 100 * DigitVal(text[i + 1])
           + 10 * DigitVal(text[i + 2]) + DigitVal(text[i + 3])

\* The leftmost pair open ... close at or after position i, as re finds it
\* for the non-greedy pattern open.*?close: the first open that has a close
\* after it, and the first such close.  <<0, 0>> if there is none.
BracketMatch(s, i, open, close) ==
    LET O == {o \in i..Len(s) :
                 s[o] = open /\ \E c \in (o + 1)..Len(s) : s[c] = close}
    IN  IF O = {} THEN <<0, 0>>
        ELSE LET o == CHOOSE k \in O : \A j \in O : k <= j
                 C == {c \in (o + 1)..Len(s) : s[c] = close}
             IN  <<o, CHOOSE k \in C : \A j \in C : k <= j>>

\* re.sub(r'\[.*?\]', '', s) and re.sub(r'\(.*?\)', '', s), from position i
RECURSIVE StripBracketed(_, _, _, _)
StripBracketed(s, i, open, close) ==
    LET m == BracketMatch(s, i, open, close) IN
    IF m = <<0, 0>> THEN SubSeq(s, i, Len(s))
    ELSE SubSeq(s, i, m[1] - 1) \o StripBracketed(s, m[2] + 1, open, close)

\* the alternatives of the quality pattern of smart_search_clean
QUALITY_WORDS ==
    { <<"4", "8", "0", "p">>, <<"7", "2", "0", "p">>,
      <<"1", "0", "8", "0", "p">>, <<"2", "1", "6", "0", "p">>, <<"4", "k">>,
      <<"8", "k">>, <<"h", "d">>, <<"f", "h", "d">>,
      <<"b", "l", "u", "r", "a", "y">>, <<"w", "e", "b", "-", "d", "l">>,
      <<"w", "e", "b", "r", "i", "p">>, <<"c", "a", "m", "r", "i", "p">>,
      <<"d", "v", "d", "s", "c", "r">> }

\* \b w \b matches at position i (w begins and ends with a word character)
WordAt(s, i, w) ==
    /\ i + Len(w) - 1 <= Len(s)
    /\ SubSeq(s, i, i + Len(w) - 1) = w
    /\ i = 1 \/ ~IsWordChar(s[i - 1])
    /\ i + Len(w) - 1 = Len(s) \/ ~IsWordChar(s[i + Len(w)])

\* The end of the quality word that matches at position i, 0 if none does.
QualityEnd(s, i) ==
    LET W == {w \in QUALITY_WORDS : WordAt(s, i, w)} IN
    IF W = {} THEN 0 ELSE i + Len(CHOOSE w \in W : TRUE) - 1

\* A run of word characters begins at position i (a \b before a word
\* character).
WordStart(s, i) ==
    /\ i <= Len(s)
    /\ IsWordChar(s[i])
    /\ i = 1 \/ ~IsWordChar(s[i - 1])

\* The last position of the run of word characters that contains i.
RunEnd(s, i) ==
    CHOOSE j \in i..Len(s) :
        /\ \A k \in i..j : IsWordChar(s[k])
        /\ j = Len(s) \/ ~IsWordChar(s[j + 1])

AllDigits(s) == \A k \in 1..Len(s) : IsDigit(s[k])

\* s\d{1,2}(e\d{1,2})? matches the whole of r
IsSeasonTag(r) ==
    /\ Len(r) >= 2
    /\ r[1] = "s"
    /\ LET rest == Tail(r)
           E == {k \in 1..Len(rest) : rest[k] = "e"}
       IN  \/ AllDigits(rest) /\ Len(rest) \in 1..2
           \/ \E k \in E :
                /\ k - 1 \in 1..2
                /\ AllDigits(SubSeq(rest, 1, k - 1))
                /\ Len(rest) - k \in 1..2
                /\ AllDigits(SubSeq(rest, k + 1, Len(rest)))

\* The end of the match of \bs\d{1,2}(e\d{1,2})?\b at position i, 0 if
\* none: every character of the pattern is a word character, so a match is
\* a whole run.
SeasonTagEnd(s, i) ==
    IF WordStart(s, i) /\ IsSeasonTag(SubSeq(s, i, RunEnd(s, i)))
    THEN RunEnd(s, i) ELSE 0

\* The end of the match of \b word \s? \d{1,maxd} \b at position i, 0 if
\* none (word is season or episode).
CountedWordEnd(s, i, word, maxd) ==
    IF ~WordStart(s, i) THEN 0
    ELSE LET e == RunEnd(s, i)
             r == SubSeq(s, i, e)
         IN  IF /\ Len(r) > Len(word)
                /\ SubSeq(r, 1, Len(word)) = word
                /\ AllDigits(SubSeq(r, Len(word) + 1, Len(r)))
                /\ Len(r) - Len(word) <= maxd
             THEN e
             ELSE IF /\ r = word
                     /\ e + 2 <= Len(s)
                     /\ IsSpace(s[e + 1])
                     /\ IsDigit(s[e + 2])
                     /\ AllDigits(SubSeq(s, e + 2, RunEnd(s, e + 2)))
                     /\ RunEnd(s, e + 2) - (e + 1) <= maxd
             THEN RunEnd(s, e + 2)
             ELSE 0

\* re.sub(r'\b(480p|720p|...|dvdscr)\b', '', s)
RemoveQuality(s) == SubEmpty(s, [i \in 1..Len(s) |-> QualityEnd(s, i)])

\* re.sub(r'\bs\d{1,2}(e\d{1,2})?\b', '', s)
RemoveSeasonTags(s) == SubEmpty(s, [i \in 1..Len(s) |-> SeasonTagEnd(s, i)])

\* re.sub(r'\bseason\s?\d{1,2}\b', '', s) and
\* re.sub(r'\bepisode\s?\d{1,3}\b', '', s)
RemoveCounted(s, word, maxd) ==
    SubEmpty(s, [i \in 1..Len(s) |-> CountedWordEnd(s, i, word, maxd)])

\* smart_search_clean(text): the normalized query
smart_search_clean(text) ==
    LET t1 == Lower(text)
        t2 == StripBracketed(t1, 1, "[", "]")
        t3 == StripBracketed(t2, 1, "(", ")")
        t4 == RemoveQuality(t3)
        t5 == RemoveYearWords(t4)
        t6 == RemoveSeasonTags(t5)
        t7 == RemoveCounted(t6, <<"s", "e", "a", "s", "o", "n">>, 2)
        t8 == RemoveCounted(t7, <<"e", "p", "i", "s", "o", "d", "e">>, 3)
        words == Words(NonAlnumToSpace(t8))
        clean_words == SelectSeq(words,
                           LAMBDA w : w \notin STOP_WORDS /\ Len(w) > 1)
    IN  Strip(Join(clean_words, <<" ">>))

\* ----------------------------------------------------------------- fuzzy
\* The stable sort of the records of seq by a field, largest first:
\* sorted(..., reverse=True) of Python; for the cursor's
\* sort("views_count", -1), documents of equal views_count are taken in
\* natural order.
SortDesc(seq, field) ==
    LET pos(i) == 1 + Cardinality({j \in DOMAIN seq :
                         \/ seq[j][field] > seq[i][field]
                         \/ seq[j][field] = seq[i][field] /\ j < i})
    IN  [p \in DOMAIN seq |-> seq[CHOOSE i \in DOMAIN seq : pos(i) = p]]

\* seq[:n]
Take(seq, n) == SubSeq(seq, 1, Min(n, Len(seq)))

\* utils.full_process of fuzzywuzzy: non-word characters to blanks, lower
\* case, strip
full_process(s) ==
    Strip(Lower([i \in 1..Len(s) |->
                    IF IsWordChar(s[i]) THEN s[i] ELSE " "]))

\* ord() on the characters full_process leaves
CharOrd(c) ==
    IF IsDigit(c) THEN DigitVal(c)
    ELSE IF c = " " THEN -1
    ELSE IF c = "_" THEN 10
    ELSE 10 + CHOOSE i \in DOMAIN LowerLetters : LowerLetters[i] = c

\* a < b for Python strings
RECURSIVE StrLess(_, _)
StrLess(a, b) ==
    IF b = <<>> THEN FALSE
    ELSE IF a = <<>> THEN TRUE
    ELSE IF Head(a) # Head(b) THEN CharOrd(Head(a)) < CharOrd(Head(b))
    ELSE StrLess(Tail(a), Tail(b))

\* " ".join(sorted(tokens))
RECURSIVE SortedJoin(_)
SortedJoin(tokens) ==
    IF tokens = {} THEN <<>>
    ELSE LET least == CHOOSE t \in tokens :
                          \A u \in tokens \ {t} : StrLess(t, u)
         IN  IF tokens = {least} THEN least
             ELSE least \o <<" ">> \o SortedJoin(tokens \ {least})

\* The length of a longest common subsequence of a and b.
RECURSIVE LCS(_, _)
LCS(a, b) ==
    IF a = <<>> \/ b = <<>> THEN 0
    ELSE IF Head(a) = Head(b) THEN 1 + LCS(Tail(a), Tail(b))
    ELSE LET x == LCS(Tail(a), b)
             y == LCS(a, Tail(b))
         IN  IF x >= y THEN x ELSE y

\* int(round(n / d)) of Python 3: halves go to the even neighbour
RoundDiv(n, d) ==
    LET q == n \div d
        r == n % d
    IN  IF 2 * r < d THEN q
        ELSE IF 2 * r > d THEN q + 1
        ELSE IF q % 2 = 0 THEN q ELSE q + 1

\* fuzz.ratio: 100 * 2 * M / T, M the matched characters (python-Levenshtein
\* counts a longest common subsequence).
ratio(s1, s2) ==
    IF s1 = s2 THEN 100
    ELSE IF s1 = <<>> \/ s2 = <<>> THEN 0
    ELSE RoundDiv(200 * LCS(s1, s2), Len(s1) + Len(s2))

Max3(a, b, c) ==
    IF a >= b /\ a >= c THEN a ELSE IF b >= c THEN b ELSE c

\* max of the three pairwise ratios of token_set_ratio
PairwiseMax(sorted_sect, combined_1to2, combined_2to1) ==
    Max3(ratio(sorted_sect, combined_1to2),
         ratio(sorted_sect, combined_2to1),
         ratio(combined_1to2, combined_2to1))

\* token_set_ratio on the token sets of the two strings
TokenSetScore(tokens1, tokens2) ==
    PairwiseMax(
        SortedJoin(tokens1 \cap tokens2),
        Strip(SortedJoin(tokens1 \cap tokens2) \o <<" ">>
                  \o SortedJoin(tokens1 \ tokens2)),
        Strip(SortedJoin(tokens1 \cap tokens2) \o <<" ">>
                  \o SortedJoin(tokens2 \ tokens1)))

\* fuzz.token_set_ratio on processed strings
token_set_ratio(p1, p2) ==
    IF p1 = p2 THEN 100
    ELSE IF p1 = <<>> \/ p2 = <<>> THEN 0
    ELSE TokenSetScore(Range(Words(p1)), Range(Words(p2)))

\* process.extract(query, choices, limit=limit, scorer=fuzz.token_set_ratio):
\* every choice with its score, the limit best, best first
extract(query, choices, limit) ==
    Take(SortDesc([i \in DOMAIN choices |->
                      [choice |-> choices[i],
                       score |-> token_set_ratio(full_process(query),
                                     full_process(choices[i]))]],
                  "score"),
         limit)

\* The first document whose title_clean is the matched choice (the inner
\* loop of find_corrected_matches, which breaks at it).
FirstWithTitle(all_movie_titles_data, matched_clean_title) ==
    CHOOSE i \in DOMAIN all_movie_titles_data :
        /\ all_movie_titles_data[i].title_clean = matched_clean_title
        /\ \A j \in 1..(i - 1) :
               all_movie_titles_data[j].title_clean # matched_clean_title

\* The suggestion appended for a match.
Suggestion(movie_data, score) ==
    [title |-> movie_data.title, message_id |-> movie_data.message_id,
     views_count |-> movie_data.views_count, score |-> score]

\* The loop of find_corrected_matches over matches_raw: of the matches at
\* or above the cutoff, the first document of that title_clean, once per
\* message_id; seen is the index set of the matches that were appended.
CorrectedSuggestions(all_movie_titles_data, matches_raw, score_cutoff) ==
    LET docOf(k) == all_movie_titles_data[
                        FirstWithTitle(all_movie_titles_data,
                                       matches_raw[k].choice)]
        seen == {k \in DOMAIN matches_raw :
                    /\ matches_raw[k].score >= score_cutoff
                    /\ \A j \in 1..(k - 1) :
                           matches_raw[j].score >= score_cutoff
                               => docOf(j).message_id # docOf(k).message_id}
    IN  [n \in 1..Cardinality(seen) |->
            LET k == CHOOSE x \in seen :
                         Cardinality({j \in seen : j < x}) = n - 1
            IN  Suggestion(docOf(k), matches_raw[k].score)]

\* find_corrected_matches
find_corrected_matches(query_clean, all_movie_titles_data, score_cutoff, limit) ==
    SortDesc(
        CorrectedSuggestions(
            all_movie_titles_data,
            extract(query_clean,
                    [i \in DOMAIN all_movie_titles_data |->
                        all_movie_titles_data[i].title_clean],
                    limit),
            score_cutoff),
        "score")

\* No get_search_results call in progress.
IdleSearch ==
    [pc |-> "idle", query |-> <<>>, offset |-> 0, raw_year |-> 0,
     cleaned_query |-> <<>>, results |-> <<>>, total_count |-> 0,
     search_source |-> [kind |-> "none", title |-> <<>>],
     tmdb_called |-> FALSE, tmdb_detected_title |-> <<>>, trace |-> <<>>]

\* No find_corrected_matches call.
IdleFuzz == [pc |-> "idle", query_clean |-> <<>>, limit |-> 0, out |-> <<>>]

\* No caption under normalization.
IdleNorm == [pc |-> "idle", caption |-> <<>>, once |-> <<>>, twice |-> <<>>]

\* The subscribers whose search sessions are followed.
Subscribers == {1}

\* No result message.
NoPage ==
    [shown |-> "none",
     header |-> [kind |-> "none", query |-> <<>>,
                 label |-> [kind |-> "none", title |-> <<>>]],
     links |-> "none", ids |-> <<>>, offset |-> 0, total_count |-> 0,
     current_page |-> 0, total_pages |-> 0, prev |-> <<>>, next |-> <<>>]

\* No search or callback handler in progress.
IdleCb ==
    [pc |-> "idle", kind |-> "none", user |-> 0, current_offset |-> 0,
     new_offset |-> 0, filter_text |-> <<>>, old_query |-> <<>>,
     query |-> <<>>, answer |-> "none"]

\* No session: nobody has searched.
NoSession ==
    /\ users_col = [u \in Subscribers |-> <<>>]
    /\ pages = [u \in Subscribers |-> NoPage]
    /\ cb = IdleCb

\* The scanners that can run at a time: the least number that can interleave.
Scanners == {1, 2}

\* An index_channel_handler coroutine before /index is received.  batches,
\* fetches, rendered, faulted and before are history: the id lists the loop
\* has built, the get_messages calls made for the batch at hand, the
\* progress texts written, whether a call of this scanner has raised, and
\* the catalog the scan started on.
IdleScan ==
    [pc |-> "idle", run |-> 0, last_msg_id |-> 0, i |-> 0, ids |-> <<>>,
     messages |-> <<>>, k |-> 0, total_indexed |-> 0, total_skipped |-> 0,
     already_exists |-> 0, report |-> <<>>, batches |-> <<>>, fetches |-> 0,
     rendered |-> 0, faulted |-> FALSE, before |-> <<>>]

\* No save_post handler is running.
\* created, setting and started are history: the entry was inserted, the
\* value of global_notify that was read, and the runs of
\* auto_broadcast_worker for the post; task is the auto_broadcast_worker
\* task that was created and has not run yet.
IdlePost ==
    [pc |-> "idle", id |-> 0, created |-> FALSE, setting |-> "none",
     task |-> FALSE, started |-> 0]

\* A post has been saved and the task that notifies of it created.
SavedPost ==
    [pc |-> "done", id |-> 1, created |-> TRUE, setting |-> "on",
     task |-> TRUE, started |-> 0]

\* The subscribers a broadcast goes to.
Recipients == {1, 2, 3}

\* The subscribers where two suffice.
TwinUsers == {1, 2}

\* A send_worker task that has not been created.
\* calls, first, last, slept and counted are history: the calls made of the
\* send function, what the first and the last of them did, whether the
\* sleep of the retry is over, and the counter the subscriber went to.
IdleWorker ==
    [pc |-> "none", calls |-> 0, first |-> "none", last |-> "none",
     slept |-> FALSE, counted |-> "none"]

\* No broadcast has been started.
\* reporter is where the update_status_loop task is, stale its local done,
\* and late says that a progress text was written after the final one.
IdleBcast ==
    [pc |-> "idle", kind |-> "none", total_users |-> 0, cursor |-> <<>>,
     worker |-> [u \in Recipients |-> IdleWorker],
     success |-> 0, failed |-> 0, blocked |-> 0, deleted |-> 0,
     report |-> <<>>, reporter |-> "none", stale |-> 0, late |-> FALSE]

\* max_workers of thread_pool_executor (line 395; 5 in the source), and
\* the searches that reach the fuzzy stage at a time.
max_workers == 2
Searchers == 1..(max_workers + 1)

\* Nothing has been recorded.
\* The second handler has nothing to do.
IdleRacer ==
    [pc |-> "idle", kind |-> "none", query |-> <<>>, new_offset |-> 0,
     during |-> FALSE, stale |-> FALSE, page |-> NoPage, answer |-> "none"]

NoMore ==
    /\ pool = [r \in Searchers |-> "idle"]
    /\ deletion = [issued |-> {}, by |-> 0]
    /\ human = [t \in Tokens |-> 0]
    /\ racer = IdleRacer

NoAux ==
    /\ runs = <<>>
    /\ global_notify = TRUE
    /\ notify = [u \in Recipients |-> "True"]
    /\ NoMore

\* No scan, no new post and no broadcast.
NoJobs ==
    /\ channel = <<>>
    /\ scan = [s \in Scanners |-> IdleScan]
    /\ post = IdlePost
    /\ user_ids = {}
    /\ bcast = IdleBcast
    /\ NoAux

\* A /start coroutine that has not been received yet.
IdleReq ==
    [pc |-> "idle", user |-> 0, arg |-> 0, verify_data |-> {},
     source_chat_id |-> 0]

\* A coroutine that has returned.
DoneReq == [IdleReq EXCEPT !.pc = "done"]

\* msg.reply(...): the reply a step sends to user u about token t, or
\* nothing.
Silent == [to |-> 0, text |-> "none", token |-> 0]
Reply(u, text, t) == [to |-> u, text |-> text, token |-> t]

\* ---------------------------------------------------------- collections
\* verify_col.find_one({"token": t}): the set holding the document, or {}.
FindToken(col, t) == {d \in col : d.token = t}

\* The positions of the documents with message_id = mid.
Matching(mid) == {i \in DOMAIN movies_col : movies_col[i].message_id = mid}

\* The first of a non-empty set of positions: find_one and update_one with
\* no sort take the first matching document in natural order.
First(S) == CHOOSE i \in S : \A j \in S : i <= j

\* movies_col.find_one({"message_id": mid}), then
\* movie.get("chat_id", CHANNEL_ID) if movie else CHANNEL_ID
ChatIdOf(mid) ==
    IF Matching(mid) = {} THEN CHANNEL_ID
    ELSE movies_col[First(Matching(mid))].chat_id

\* movies_col.update_one({"message_id": mid}, {"$inc": {"views_count": 1}})
IncViews(mid) ==
    IF Matching(mid) = {} THEN movies_col
    ELSE [movies_col EXCEPT ![First(Matching(mid))].views_count = @ + 1]

\* Mutant of NewToken: the token is created already advanced.
MutNewTokenAdvanced(t, u, mid, c) ==
    [token |-> t, user_id |-> u, movie_id |-> mid, chat_id |-> c,
     step |-> 2, age |-> 0]

\* verify_col.insert_one({...}) of create_verification_link
NewToken(t, u, mid, c) ==
    [token |-> t, user_id |-> u, movie_id |-> mid, chat_id |-> c,
     step |-> 1, age |-> 0]

\* Mutant of SetStepTwo: the update also writes the document's owner field.
MutSetStepTwoTouchesOwner(col, t) ==
    {IF d.token = t THEN [d EXCEPT !.step = 2, !.user_id = 1] ELSE d :
        d \in col}

\* sync_db.verification.update_one({"token": t}, {"$set": {"step": 2}})
SetStepTwo(col, t) ==
    {IF d.token = t THEN [d EXCEPT !.step = 2] ELSE d : d \in col}

\* What the handler keeps of the document it read (verify_data): every
\* field but created_at, which it never looks at.
Snapshot(d) ==
    [token |-> d.token, user_id |-> d.user_id, movie_id |-> d.movie_id,
     chat_id |-> d.chat_id, step |-> d.step]

\* Mutant of RedeemDecision: the step check is missing.
MutRedeemNoStepCheck(data, user_id) ==
    IF data = {} THEN "expired"
    ELSE LET verify_data == CHOOSE d \in data : TRUE IN
         IF verify_data.user_id # user_id THEN "not_yours" ELSE "ok"

\* Mutant of RedeemDecision: the step is checked before the owner.
MutRedeemStepFirst(data, user_id) ==
    IF data = {} THEN "expired"
    ELSE LET verify_data == CHOOSE d \in data : TRUE IN
         IF verify_data.step # 2 THEN "incomplete"
         ELSE IF verify_data.user_id # user_id THEN "not_yours"
         ELSE "ok"

\* The checks of the verified_ branch on the document just read.
RedeemDecision(data, user_id) ==
    IF data = {} THEN "expired"
    ELSE LET verify_data == CHOOSE d \in data : TRUE IN
         IF verify_data.user_id # user_id THEN "not_yours"
         ELSE IF verify_data.step # 2 THEN "incomplete"
         ELSE "ok"

\* Mutant of Throttled: a /start exactly two seconds later is dropped too.
MutThrottledInclusive(u) ==
    /\ u \in DOMAIN user_last_start_time
    /\ user_last_start_time[u] <= THROTTLE_SECONDS

\* if user_id in user_last_start_time and (now - last) < timedelta(seconds=2)
Throttled(u) ==
    /\ u \in DOMAIN user_last_start_time
    /\ user_last_start_time[u] < THROTTLE_SECONDS

\* -------------------------------------------------------------- the gate
Init ==
    /\ movies_col = GateCatalog
    /\ verify_col = {}
    /\ verification_mode = TRUE
    /\ user_last_start_time = <<>>
    /\ req = [r \in Requests |-> IdleReq]
    /\ nextToken = 0
    /\ delivered = [t \in Tokens |-> 0]
    /\ out = Silent
    /\ search = IdleSearch
    /\ fuzz = IdleFuzz
    /\ norm = IdleNorm
    /\ NoSession
    /\ NoJobs

\* The message id a /start watch_<id> carries: that of the catalog entry
\* the link was rendered for (line 1354).
WatchIds == {GateCatalog[i].message_id : i \in DOMAIN GateCatalog}

\* start(), lines 924-946 and 989: the rate limit, the upsert of the user
\* with notify on, then the dispatch on the argument.  Requests are received
\* in the order of their index.
StartReceive(r, u, first_pc, arg) ==
    /\ req[r].pc = "idle"
    /\ \A p \in Requests : p < r => req[p].pc # "idle"
    /\ IF Throttled(u)
       THEN /\ req' = [req EXCEPT ![r] = DoneReq]
            /\ UNCHANGED <<user_last_start_time, user_ids, notify>>
       ELSE /\ user_last_start_time' =
                  [x \in DOMAIN user_last_start_time \cup {u} |->
                      IF x = u THEN 0 ELSE user_last_start_time[x]]
            /\ user_ids' = user_ids \cup {u}
            /\ notify' = [notify EXCEPT ![u] = "True"]
            /\ req' = [req EXCEPT ![r] =
                          [IdleReq EXCEPT !.pc = first_pc, !.user = u,
                                          !.arg = arg]]
    /\ out' = Silent
    /\ UNCHANGED <<searchVars, pureVars, sessionVars, channel, scan, post,
                   bcast, runs, global_notify, moreVars>>
    /\ UNCHANGED <<movies_col, verify_col, verification_mode, nextToken,
                   delivered>>

StartVerified(r) ==
    \E u \in Users, t \in Tokens :
        StartReceive(r, u, "v_find", t)

StartWatch(r) ==
    \E u \in Users, mid \in WatchIds : StartReceive(r, u, "w_find", mid)

\* lines 948-965: read the token, deny or go on to the copy
VerifiedFind(r) ==
    /\ req[r].pc = "v_find"
    /\ LET data == FindToken(verify_col, req[r].arg)
           verdict == RedeemDecision(data, req[r].user)
       IN  IF verdict = "ok"
           THEN /\ req' = [req EXCEPT ![r].pc = "v_copy",
                                      ![r].verify_data =
                                          {Snapshot(d) : d \in data},
                                      ![r].source_chat_id =
                                          (CHOOSE d \in data : TRUE).chat_id]
                /\ out' = Silent
           ELSE /\ req' = [req EXCEPT ![r] = DoneReq]
                /\ out' = Reply(req[r].user, verdict, req[r].arg)
    /\ UNCHANGED nonGateVars
    /\ UNCHANGED <<movies_col, verify_col, verification_mode,
                   user_last_start_time, nextToken, delivered>>

\* Mutant of VerifiedCopy: the token is deleted before the copy is tried.
MutVerifiedCopyDeletesFirst(r) ==
    /\ req[r].pc = "v_copy"
    /\ verify_col' = verify_col \ FindToken(verify_col, req[r].arg)
    /\ \/ /\ delivered' = [delivered EXCEPT ![req[r].arg] = @ + 1]
          /\ req' = [req EXCEPT ![r].pc = "v_delete"]
          /\ out' = Silent
       \/ /\ req' = [req EXCEPT ![r] = DoneReq]
          /\ out' = Reply(req[r].user, "copy_failed", req[r].arg)
          /\ UNCHANGED delivered
    /\ UNCHANGED nonGateVars
    /\ UNCHANGED <<movies_col, verification_mode, user_last_start_time,
                   nextToken>>

\* lines 967-973 and 984-985: copy_message returns or raises
VerifiedCopy(r) ==
    /\ req[r].pc = "v_copy"
    /\ \/ /\ delivered' = [delivered EXCEPT ![req[r].arg] = @ + 1]
          /\ req' = [req EXCEPT ![r].pc = "v_delete"]
          /\ out' = Silent
       \/ /\ req' = [req EXCEPT ![r] = DoneReq]
          /\ out' = Reply(req[r].user, "copy_failed", req[r].arg)
          /\ UNCHANGED delivered
    /\ UNCHANGED nonGateVars
    /\ UNCHANGED <<movies_col, verify_col, verification_mode,
                   user_last_start_time, nextToken>>

\* line 975: verify_col.delete_one({"token": token})
VerifiedDelete(r) ==
    /\ req[r].pc = "v_delete"
    /\ verify_col' = verify_col \ FindToken(verify_col, req[r].arg)
    /\ req' = [req EXCEPT ![r].pc = "v_inc"]
    /\ out' = Silent
    /\ UNCHANGED nonGateVars
    /\ UNCHANGED <<movies_col, verification_mode, user_last_start_time,
                   nextToken, delivered>>

\* lines 976-982: the view count, then the success reply
VerifiedInc(r) ==
    /\ req[r].pc = "v_inc"
    /\ LET vd == CHOOSE d \in req[r].verify_data : TRUE IN
       movies_col' = IncViews(vd.movie_id)
    /\ req' = [req EXCEPT ![r] = DoneReq]
    /\ out' = Reply(req[r].user, "success", req[r].arg)
    /\ UNCHANGED nonGateVars
    /\ UNCHANGED <<verify_col, verification_mode, user_last_start_time,
                   nextToken, delivered>>

\* create_verification_link(message_id, user_id), lines 465-482: the
\* verification collection after the insert of token t.
CreateVerificationLink(t, message_id, user_id) ==
    verify_col \cup {NewToken(t, user_id, message_id, ChatIdOf(message_id))}

\* lines 990-1008: the catalog lookup and the verification_mode setting are
\* read; with verification on a token is created and its link replied.
WatchRead(r) ==
    /\ req[r].pc = "w_find"
    /\ IF verification_mode
       THEN /\ nextToken < MaxTokens
            /\ nextToken' = nextToken + 1
            /\ verify_col' =
                   CreateVerificationLink(nextToken + 1, req[r].arg, req[r].user)
            /\ req' = [req EXCEPT ![r] = DoneReq]
            /\ out' = Reply(req[r].user, "locked", nextToken + 1)
       ELSE /\ req' = [req EXCEPT ![r].pc = "w_copy",
                                      ![r].source_chat_id = ChatIdOf(req[r].arg)]
            /\ out' = Silent
            /\ UNCHANGED <<verify_col, nextToken>>
    /\ UNCHANGED nonGateVars
    /\ UNCHANGED <<movies_col, verification_mode, user_last_start_time,
                   delivered>>

\* lines 1010-1019: the direct copy with verification off; the view count
\* is incremented when copy_message returned, and the failure reply sent
\* when it raised.
WatchCopy(r) ==
    /\ req[r].pc = "w_copy"
    /\ \/ /\ movies_col' = IncViews(req[r].arg)
          /\ out' = Silent
       \/ /\ out' = Reply(req[r].user, "not_found", 0)
          /\ UNCHANGED movies_col
    /\ req' = [req EXCEPT ![r] = DoneReq]
    /\ UNCHANGED nonGateVars
    /\ UNCHANGED <<verify_col, verification_mode, user_last_start_time,
                   nextToken, delivered>>

\* send_results lines 1346-1351 and top_searching lines 1465-1470: with
\* verification on, one create_verification_link(mid, user_id) per entry m
\* shown to user u.
PageLink(u, m) ==
    /\ verification_mode
    /\ m \in Range(movies_col)
    /\ nextToken < MaxTokens
    /\ nextToken' = nextToken + 1
    /\ verify_col' = CreateVerificationLink(nextToken + 1, m.message_id, u)
    /\ out' = Silent
    /\ UNCHANGED nonGateVars
    /\ UNCHANGED <<movies_col, verification_mode, user_last_start_time, req,
                   delivered>>

\* verify_page_one, lines 353-367: what the route returns for token t
PageOneResponse(t) ==
    IF FindToken(verify_col, t) = {} THEN "invalid" ELSE "step1"

\* verify_page_two, lines 372-385: what the route returns for token t
PageTwoResponse(t) ==
    IF FindToken(verify_col, t) = {} THEN "expired" ELSE "step2"

\* verify_page_one reads the collection and writes nothing
VerifyPageOne(t) ==
    /\ PageOneResponse(t) \in {"invalid", "step1"}
    /\ out' = Silent
    /\ UNCHANGED nonGateVars
    /\ UNCHANGED <<movies_col, verify_col, verification_mode,
                   user_last_start_time, req, nextToken, delivered>>

\* verify_page_two, line 372: the update of the step
VerifyPageTwo(t) ==
    /\ PageTwoResponse(t) \in {"expired", "step2"}
    /\ verify_col' = SetStepTwo(verify_col, t)
    /\ out' = Silent
    /\ UNCHANGED nonGateVars
    /\ UNCHANGED <<movies_col, verification_mode, user_last_start_time, req,
                   nextToken, delivered>>

\* The titles an admin asks to delete: that of the first catalog entry.
DeletableTitles == {GateCatalog[1].title}

\* callback_handler, lines 1565-1570: an admin confirms the deletion of the
\* entries whose title contains the given text.
ConfirmDel(title) ==
    /\ movies_col' = FilterSeq(movies_col,
           {m \in Range(movies_col) : ~RegexMatchI(title, m.title)})
    /\ out' = Silent
    /\ UNCHANGED nonGateVars
    /\ UNCHANGED <<verify_col, verification_mode, user_last_start_time, req,
                   nextToken, delivered>>

\* toggle_verification, lines 1062-1070
ToggleVerification(v) ==
    /\ verification_mode' = v
    /\ out' = Silent
    /\ UNCHANGED nonGateVars
    /\ UNCHANGED <<movies_col, verify_col, user_last_start_time, req,
                   nextToken, delivered>>

\* The age of a document as the TTL monitor sees it: expired or not.
Age(seconds) == IF seconds >= TTL_SECONDS THEN TTL_SECONDS ELSE 0

\* d seconds pass.  A short step is taken only while it can end some user's
\* rate-limit window; the long step is always possible.
Tick(d) ==
    /\ \/ d = TTL_SECONDS
       \/ \E u \in DOMAIN user_last_start_time :
              user_last_start_time[u] < THROTTLE_SECONDS
    /\ user_last_start_time' =
           [u \in DOMAIN user_last_start_time |->
               Min(user_last_start_time[u] + d, THROTTLE_SECONDS)]
    /\ verify_col' = {[doc EXCEPT !.age = Age(doc.age + d)] :
                         doc \in verify_col}
    /\ out' = Silent
    /\ UNCHANGED nonGateVars
    /\ UNCHANGED <<movies_col, verification_mode, req, nextToken, delivered>>

\* Mutant of TTLExpire: only tokens still in step 1 expire.
MutTTLExpireStepOneOnly(doc) ==
    /\ doc \in verify_col
    /\ doc.age >= TTL_SECONDS
    /\ doc.step = 1
    /\ verify_col' = verify_col \ {doc}
    /\ out' = Silent
    /\ UNCHANGED nonGateVars
    /\ UNCHANGED <<movies_col, verification_mode, user_last_start_time, req,
                   nextToken, delivered>>

\* The TTL index of line 157: MongoDB's monitor removes a document whose
\* created_at is at least 3600 s old, at some later moment.
TTLExpire(doc) ==
    /\ doc \in verify_col
    /\ doc.age >= TTL_SECONDS
    /\ verify_col' = verify_col \ {doc}
    /\ out' = Silent
    /\ UNCHANGED nonGateVars
    /\ UNCHANGED <<movies_col, verification_mode, user_last_start_time, req,
                   nextToken, delivered>>

Handler(r) ==
    \/ StartVerified(r)
    \/ StartWatch(r)
    \/ VerifiedFind(r)
    \/ VerifiedCopy(r)
    \/ VerifiedDelete(r)
    \/ VerifiedInc(r)
    \/ WatchRead(r)
    \/ WatchCopy(r)

Next ==
    \/ \E r \in Requests : Handler(r)
    \/ \E u \in Users, m \in Range(movies_col) : PageLink(u, m)
    \/ \E title \in DeletableTitles : ConfirmDel(title)
    \/ \E t \in Tokens : VerifyPageOne(t)
    \/ \E t \in Tokens : VerifyPageTwo(t)
    \/ \E v \in BOOLEAN : ToggleVerification(v)
    \/ \E d \in {THROTTLE_SECONDS, TTL_SECONDS} : Tick(d)
    \/ \E doc \in verify_col : TTLExpire(doc)

Spec == Init /\ [][Next]_vars

\* Fairness: time passes, and the TTL monitor (a background thread of the
\* database that runs once a minute) gets to every expired document.
LiveSpec ==
    /\ Spec
    /\ WF_vars(Tick(TTL_SECONDS))
    /\ \A t \in Tokens :
           WF_vars(\E doc \in verify_col : doc.token = t /\ TTLExpire(doc))

\* ------------------------------------------------------ the search pipeline
\* process_movie_save: the document indexed for a one-line caption; views
\* is the number of deliveries counted on it since.
Indexed(chat, mid, caption, views) ==
    Movie(chat, mid, Strip(caption), clean_text(caption),
          extract_year(caption), views)

\* "Abcd (2019) [720p]" and "Abcd 2 (2020)"
CaptionOne ==
    << "A", "b", "c", "d", " ", "(", "2", "0", "1", "9", ")", " ",
       "[", "7", "2", "0", "p", "]" >>

CaptionTwo == <<"A", "b", "c", "d", " ", "2", " ", "(", "2", "0", "2", "0", ")">>

\* "Abcd (2019) [1080p]": the film of CaptionOne in another quality
CaptionOneFhd ==
    << "A", "b", "c", "d", " ", "(", "2", "0", "1", "9", ")", " ",
       "[", "1", "0", "8", "0", "p", "]" >>

\* "Avengers: Endgame (2019) [720p]" and "Avengers (2012)"
CaptionEndgame ==
    << "A", "v", "e", "n", "g", "e", "r", "s", ":", " ", "E", "n", "d", "g",
       "a", "m", "e", " ", "(", "2", "0", "1", "9", ")", " ", "[", "7", "2",
       "0", "p", "]" >>

CaptionAvengers ==
    << "A", "v", "e", "n", "g", "e", "r", "s", " ", "(", "2", "0", "1", "2",
       ")" >>

\* The catalogs a search runs against.
SearchCatalogs ==
    { <<>>,
      << Indexed(1, 1, CaptionOne, 1) >>,
      << Indexed(1, 1, CaptionOne, 1), Indexed(1, 2, CaptionTwo, 2) >>,
      << Indexed(1, 1, CaptionOne, 1), Indexed(1, 2, CaptionOneFhd, 0) >>,
      << Indexed(1, 1, CaptionEndgame, 1),
         Indexed(1, 2, CaptionAvengers, 2) >> }

\* The queries: "Abcd", "Abcd 2", "abcd 720p", "Abcd 2019", "Abcd (2019)",
\* "Abcd2019", the misspelling "abd", "dd", and "Avengers 720p".
Queries ==
    { <<"A", "b", "c", "d">>,
      <<"A", "b", "c", "d", " ", "2">>,
      <<"a", "b", "c", "d", " ", "7", "2", "0", "p">>,
      <<"A", "b", "c", "d", " ", "2", "0", "1", "9">>,
      <<"A", "b", "c", "d", " ", "(", "2", "0", "1", "9", ")">>,
      <<"A", "b", "c", "d", "2", "0", "1", "9">>,
      <<"a", "b", "d">>,
      <<"d", "d">>,
      <<"A", "v", "e", "n", "g", "e", "r", "s", " ", "7", "2", "0", "p">> }

\* The offsets a caller passes: 0 (search, add_filter, back_to_search) and a
\* next_page offset.
Offsets == {0, RESULTS_COUNT}

\* get_tmdb_suggestion(query): what the call can return.  None (here <<>>:
\* no API key, an error, a non-200 answer, no result), or the title of the
\* service's first result, "Abcd" or "Bd".
get_tmdb_suggestion(query) ==
    { <<>>, <<"A", "b", "c", "d">>, <<"B", "d">> }

\* search_source
NoLabel == [kind |-> "none", title |-> <<>>]
AutoCorrected(title) == [kind |-> "auto_corrected", title |-> title]
DidYouMean(title) == [kind |-> "did_you_mean", title |-> title]

\* movies_col.find(filter): the matching documents in natural order
Find(matching) == FilterSeq(movies_col, matching)

\* .sort("views_count", -1).skip(offset).limit(RESULTS_COUNT)
Page(matches, offset) ==
    LET sorted == SortDesc(matches, "views_count") IN
    SubSeq(sorted, offset + 1, Min(offset + RESULTS_COUNT, Len(sorted)))

\* query_filter of stage 1
DirectFilter(query, raw_year) ==
    {m \in Range(movies_col) :
        /\ \/ RegexMatchI(Strip(query), m.title_clean)
           \/ RegexMatchI(Strip(query), m.title)
        /\ raw_year # 0 => m.year = raw_year}

\* loose_filter of stage 2
LooseFilter(cleaned_query) ==
    {m \in Range(movies_col) : RegexMatchI(cleaned_query, m.title_clean)}

\* tmdb_filter of stage 3
TmdbFilter(tmdb_detected_title) ==
    {m \in Range(movies_col) :
        \/ RegexMatchI(clean_text(tmdb_detected_title), m.title_clean)
        \/ RegexMatchI(tmdb_detected_title, m.title)}

\* A stage that queried the catalog: what it counted, the page it read and
\* the label it gives.
Ran(stage, count, page, label) ==
    [stage |-> stage, count |-> count, page |-> page, label |-> label]

\* get_search_results(query, offset), lines 534-552: the frame on entry
CallFrame(query, offset) ==
    [pc |-> "direct", query |-> query, offset |-> offset,
     raw_year |-> extract_year(query),
     cleaned_query |->
         IF smart_search_clean(query) = <<>> THEN Lower(query)
         ELSE smart_search_clean(query),
     results |-> <<>>, total_count |-> 0, search_source |-> NoLabel,
     tmdb_called |-> FALSE, tmdb_detected_title |-> <<>>,
     trace |-> <<>>]

SearchCall(query, offset) ==
    /\ search.pc \in {"idle", "done"}
    /\ search' = CallFrame(query, offset)
    /\ UNCHANGED nonSearchVars

\* 1. Direct Regex Search, lines 556-570
DirectFrame(frame) ==
    LET matches == Find(DirectFilter(frame.query, frame.raw_year))
        total_count == Len(matches)
        results == IF total_count > 0 THEN Page(matches, frame.offset)
                   ELSE <<>>
    IN  [frame EXCEPT
            !.pc = "loose",
            !.total_count = total_count,
            !.results = results,
            !.trace = Append(@, Ran("substring", total_count, results,
                                    NoLabel))]

DirectStage ==
    /\ search.pc = "direct"
    /\ search' = DirectFrame(search)
    /\ UNCHANGED nonSearchVars

MutLooseRunsIgnoresYear(frame) == frame.results = <<>>

\* line 573: if not results and not raw_year
LooseRuns(frame) == frame.results = <<>> /\ frame.raw_year = 0

\* 2. Loose Search, lines 573-582
LooseFrame(frame) ==
    IF LooseRuns(frame)
    THEN LET matches == Find(LooseFilter(frame.cleaned_query))
             total_count == Len(matches)
             results == IF total_count > 0
                        THEN Page(matches, frame.offset)
                        ELSE frame.results
         IN  [frame EXCEPT
                 !.pc = "tmdb",
                 !.total_count = total_count,
                 !.results = results,
                 !.trace = Append(@, Ran("loose", total_count, results,
                                         NoLabel))]
    ELSE [frame EXCEPT !.pc = "tmdb"]

LooseStage ==
    /\ search.pc = "loose"
    /\ search' = LooseFrame(search)
    /\ UNCHANGED nonSearchVars

\* line 585: if not results and offset == 0
TmdbRuns(frame) == frame.results = <<>> /\ frame.offset = 0

\* What get_tmdb_suggestion can return to a call in this frame (nothing is
\* asked, and tmdb_detected_title stays None, when the stage does not run).
Titles(frame) ==
    IF TmdbRuns(frame) THEN get_tmdb_suggestion(frame.cleaned_query)
    ELSE {<<>>}

\* 3. TMDB Search, lines 585-600; title is what get_tmdb_suggestion returns
TmdbFrame(frame, title) ==
    IF TmdbRuns(frame)
    THEN IF title # <<>>
         THEN LET matches == Find(TmdbFilter(title))
                  total_count == Len(matches)
                  found == total_count > 0
                  results == IF found THEN Page(matches, 0)
                             ELSE frame.results
                  label == IF found THEN AutoCorrected(title)
                           ELSE frame.search_source
              IN  [frame EXCEPT
                      !.pc = "fuzzy",
                      !.tmdb_called = TRUE,
                      !.tmdb_detected_title = title,
                      !.total_count = total_count,
                      !.results = results,
                      !.search_source = label,
                      !.trace = Append(@, Ran("external", total_count,
                                              results, label))]
         ELSE [frame EXCEPT !.pc = "fuzzy", !.tmdb_called = TRUE]
    ELSE [frame EXCEPT !.pc = "fuzzy"]

TmdbStage(title) ==
    /\ search.pc = "tmdb"
    /\ title \in Titles(search)
    /\ search' = TmdbFrame(search, title)
    /\ UNCHANGED nonSearchVars

\* lines 609-612: the frame once the fuzzy matcher has returned
WithSuggestions(frame, corrected_suggestions) ==
    IF corrected_suggestions # <<>>
    THEN [frame EXCEPT
             !.pc = "done",
             !.results = corrected_suggestions,
             !.total_count = Len(corrected_suggestions),
             !.search_source = DidYouMean(corrected_suggestions[1].title),
             !.trace = Append(@, Ran("fuzzy", Len(corrected_suggestions),
                                     corrected_suggestions,
                                     DidYouMean(corrected_suggestions[1].title)))]
    ELSE [frame EXCEPT
             !.pc = "done",
             !.trace = Append(@, Ran("fuzzy", 0, <<>>, frame.search_source))]

MutFuzzyRunsAfterSuggestion(frame) ==
    /\ frame.results = <<>>
    /\ frame.raw_year = 0
    /\ frame.offset = 0

\* line 603: if not results and not raw_year and not tmdb_detected_title
\* and offset == 0
FuzzyRuns(frame) ==
    /\ frame.results = <<>>
    /\ frame.raw_year = 0
    /\ frame.tmdb_detected_title = <<>>
    /\ frame.offset = 0

\* 4. Fuzzy Search, lines 603-612
FuzzyFrame(frame) ==
    IF FuzzyRuns(frame)
    THEN WithSuggestions(frame,
             find_corrected_matches(frame.cleaned_query, movies_col,
                                    SCORE_CUTOFF, RESULTS_COUNT))
    ELSE [frame EXCEPT !.pc = "done"]

FuzzyStage ==
    /\ search.pc = "fuzzy"
    /\ search' = FuzzyFrame(search)
    /\ UNCHANGED nonSearchVars

SearchInit ==
    /\ movies_col \in SearchCatalogs
    /\ verify_col = {}
    /\ verification_mode = TRUE
    /\ user_last_start_time = <<>>
    /\ req = [r \in Requests |-> IdleReq]
    /\ nextToken = 0
    /\ delivered = [t \in Tokens |-> 0]
    /\ out = Silent
    /\ search = IdleSearch
    /\ fuzz = IdleFuzz
    /\ norm = IdleNorm
    /\ NoSession
    /\ NoJobs

SearchNext ==
    \/ \E query \in Queries, offset \in Offsets : SearchCall(query, offset)
    \/ DirectStage
    \/ LooseStage
    \/ \E title \in Titles(search) : TmdbStage(title)
    \/ FuzzyStage

SearchSpec == SearchInit /\ [][SearchNext]_vars

\* ------------------------------------------------------- the fuzzy matcher
\* The gate with no request, token or reply.
GateAtRest ==
    /\ verify_col = {}
    /\ user_last_start_time = <<>>
    /\ req = [r \in Requests |-> IdleReq]
    /\ nextToken = 0
    /\ delivered = [t \in Tokens |-> 0]
    /\ out = Silent

\* The largest limit a call is given.
MaxLimit == 3

\* all_movie_data (line 604): the catalogs of SearchCatalogs (one of them
\* has a film posted in two qualities); two channels whose posts share a
\* message id; and both together.
FuzzCatalogs ==
    SearchCatalogs \cup
    { << Indexed(1, 1, CaptionOne, 1), Indexed(2, 1, CaptionTwo, 2) >>,
      << Indexed(1, 1, CaptionOne, 1), Indexed(1, 2, CaptionOneFhd, 0),
         Indexed(2, 1, CaptionTwo, 2) >> }

\* cleaned_query values: "abcd", "abd", "abcd 2", "avengers", "dd"
FuzzQueries ==
    { <<"a", "b", "c", "d">>,
      <<"a", "b", "d">>,
      <<"a", "b", "c", "d", " ", "2">>,
      <<"a", "v", "e", "n", "g", "e", "r", "s">>,
      <<"d", "d">> }

FuzzInit ==
    /\ GateAtRest
    /\ verification_mode = TRUE
    /\ movies_col \in FuzzCatalogs
    /\ search = IdleSearch
    /\ norm = IdleNorm
    /\ NoSession
    /\ NoJobs
    /\ fuzz \in [pc : {"input"}, query_clean : FuzzQueries,
                  limit : 1..MaxLimit, out : {<<>>}]

\* find_corrected_matches(cleaned_query, all_movie_data, 80, limit)
FuzzCall ==
    /\ fuzz.pc = "input"
    /\ fuzz' = [fuzz EXCEPT
                   !.pc = "done",
                   !.out = find_corrected_matches(fuzz.query_clean, movies_col,
                                                  SCORE_CUTOFF, fuzz.limit)]
    /\ UNCHANGED <<gateVars, searchVars, norm, sessionVars, jobVars>>

FuzzNext == FuzzCall

FuzzySpec == FuzzInit /\ [][FuzzNext]_vars

\* --------------------------------------------------- caption normalization
\* The words captions are made of: "Ab", "h", "d", "hd", "20", "19", "2019"
CaptionWords ==
    { <<"A", "b">>, <<"h">>, <<"d">>, <<"h", "d">>,
      <<"2", "0">>, <<"1", "9">>,
      <<"2", "0", "1", "9">> }

\* What stands between two words of a caption: a space, a dot, a line break.
Separators == {" ", ".", "\n"}

\* The captions put through clean_text: one word, or two words and a
\* separator.
Captions ==
    CaptionWords \cup
    {w1 \o <<sep>> \o w2 : w1 \in CaptionWords, w2 \in CaptionWords,
                           sep \in Separators}

NormInit ==
    /\ GateAtRest
    /\ verification_mode = TRUE
    /\ movies_col = <<>>
    /\ search = IdleSearch
    /\ fuzz = IdleFuzz
    /\ NoSession
    /\ NoJobs
    /\ norm \in [pc : {"input"}, caption : Captions, once : {<<>>},
                  twice : {<<>>}]

\* title_clean = clean_text(text) (line 647)
NormClean ==
    /\ norm.pc = "input"
    /\ norm' = [norm EXCEPT !.pc = "once", !.once = clean_text(norm.caption)]
    /\ UNCHANGED <<gateVars, searchVars, fuzz, sessionVars, jobVars>>

\* clean_text applied to a title_clean
NormAgain ==
    /\ norm.pc = "once"
    /\ norm' = [norm EXCEPT !.pc = "twice", !.twice = clean_text(norm.once)]
    /\ UNCHANGED <<gateVars, searchVars, fuzz, sessionVars, jobVars>>

NormNext == NormClean \/ NormAgain

NormSpec == NormInit /\ [][NormNext]_vars

\* --------------------------------------------------------- search sessions
\* The most filter words a last_query gets, and the most entries the catalog
\* holds.
MaxFilters == 1
MaxCatalog == 5

\* What the subscriber types: "Abcd" and "dd".
SessionQueries == { <<"A", "b", "c", "d">>, <<"d", "d">> }

\* callback_data of the 720p button of the quality menu (line 1505)
FilterButtons == { <<"a", "d", "d", "_", "f", "i", "l", "t", "e", "r", "_", "7", "2", "0", "p">> }

\* The catalog when the session starts: three posts whose titles have "Abcd".
SessionCatalog ==
    << Indexed(CHANNEL_ID, 1, CaptionOne, 1),
       Indexed(CHANNEL_ID, 2, CaptionOneFhd, 0),
       Indexed(CHANNEL_ID, 3, CaptionTwo, 2) >>

\* The captions of the posts saved during a session.
SessionCaptions == {CaptionOne}

\* str(n), n >= 0
RECURSIVE Decimal(_)
Decimal(n) ==
    IF n < 10 THEN <<Digits[n + 1]>>
    ELSE Decimal(n \div 10) \o <<Digits[(n % 10) + 1]>>

\* int(s), s a run of digits
RECURSIVE ParseInt(_)
ParseInt(s) ==
    IF Len(s) = 1 THEN DigitVal(s[1])
    ELSE 10 * ParseInt(SubSeq(s, 1, Len(s) - 1)) + DigitVal(s[Len(s)])

\* s.split(sep)
RECURSIVE Split(_, _)
Split(s, sep) ==
    LET I == {i \in 1..Len(s) : s[i] = sep} IN
    IF I = {} THEN <<s>>
    ELSE LET i == CHOOSE k \in I : \A j \in I : k <= j
         IN  <<SubSeq(s, 1, i - 1)>> \o Split(SubSeq(s, i + 1, Len(s)), sep)

\* f"prev_page_{offset}" and f"next_page_{offset}" (lines 1373, 1380)
PrevPage(offset) == <<"p", "r", "e", "v", "_", "p", "a", "g", "e", "_">> \o Decimal(offset)
NextPage(offset) == <<"n", "e", "x", "t", "_", "p", "a", "g", "e", "_">> \o Decimal(offset)

\* get_search_results(query, offset): the frame it returns when the title
\* service, if asked, answers title
get_search_results(query, offset, title) ==
    FuzzyFrame(TmdbFrame(LooseFrame(DirectFrame(CallFrame(query, offset))),
                         title))

\* What the title service can answer during get_search_results(query, offset)
TitlesFor(query, offset) ==
    Titles(LooseFrame(DirectFrame(CallFrame(query, offset))))

MutSetLastQueryOnInsert(col, user_id, query) ==
    IF col[user_id] = <<>> THEN [col EXCEPT ![user_id] = query] ELSE col

\* users_col.update_one({"_id": user_id}, {"$set": {"last_query": query}})
SetLastQuery(col, user_id, query) == [col EXCEPT ![user_id] = query]

\* The text above the buttons of a result message.
Header(kind, query, label) == [kind |-> kind, query |-> query, label |-> label]

\* current_page, line 1369
CurrentPage(offset) == (offset \div RESULTS_COUNT) + 1

MutTotalPagesFloor(total_count) == total_count \div RESULTS_COUNT

\* total_pages = math.ceil(total_count / RESULTS_COUNT), line 1370
TotalPages(total_count) ==
    (total_count + RESULTS_COUNT - 1) \div RESULTS_COUNT

\* send_results, lines 1335-1398: the message it sends or edits in
send_results(results, total_count, offset, header) ==
    [shown |-> "results", header |-> header,
     links |-> IF verification_mode THEN "verify" ELSE "watch",
     ids |-> [k \in DOMAIN results |-> results[k].message_id],
     offset |-> offset, total_count |-> total_count,
     current_page |-> CurrentPage(offset),
     total_pages |-> TotalPages(total_count),
     prev |-> IF offset > 0 THEN PrevPage(offset) ELSE <<>>,
     next |-> IF (offset + RESULTS_COUNT) < total_count
              THEN NextPage(offset) ELSE <<>>]

\* search, lines 1260-1277: the query is saved as last_query
SearchMsg(u, text) ==
    /\ cb.pc \in {"idle", "done"}
    /\ Strip(text) # <<>>
    /\ users_col' = SetLastQuery(users_col, u, Strip(text))
    /\ cb' = [IdleCb EXCEPT !.pc = "s_search", !.kind = "search",
                            !.user = u, !.query = Strip(text)]
    /\ UNCHANGED <<gateVars, searchVars, pureVars, jobVars, pages>>

\* search, lines 1281-1296, once get_search_results has returned frame
SearchDone(frame) ==
    IF frame.results # <<>>
    THEN /\ pages' = [pages EXCEPT ![cb.user] =
                         send_results(frame.results, frame.total_count, 0,
                             Header("found", <<>>, frame.search_source))]
         /\ cb' = [cb EXCEPT !.pc = "done"]
    ELSE /\ pages' = pages
         /\ cb' = [cb EXCEPT !.pc = "done", !.answer = "not_found"]

SearchRun(title) ==
    /\ cb.pc = "s_search"
    /\ title \in TitlesFor(cb.query, 0)
    /\ SearchDone(get_search_results(cb.query, 0, title))
    /\ UNCHANGED <<gateVars, searchVars, pureVars, jobVars, users_col>>

\* new_offset, lines 1489-1492
NewOffset(kind, current_offset) ==
    IF kind = "next" THEN current_offset + RESULTS_COUNT
    ELSE IF current_offset - RESULTS_COUNT > 0
         THEN current_offset - RESULTS_COUNT ELSE 0

\* callback_handler, lines 1480-1492: a press of "< Back" or "NEXT >"
PagePress(u, data) ==
    /\ cb.pc \in {"idle", "done"}
    /\ pages[u].shown = "results"
    /\ data \in {pages[u].prev, pages[u].next} \ {<<>>}
    /\ IF users_col[u] = <<>>
       THEN cb' = [IdleCb EXCEPT !.pc = "done", !.kind = "page", !.user = u,
                                 !.answer = "session_expired"]
       ELSE cb' = [IdleCb EXCEPT
                      !.pc = "p_search",
                      !.kind = IF IsSubstr(<<"n", "e", "x", "t">>, data)
                               THEN "next" ELSE "prev",
                      !.user = u,
                      !.query = users_col[u],
                      !.current_offset = ParseInt(Split(data, "_")[3]),
                      !.new_offset =
                          NewOffset(IF IsSubstr(<<"n", "e", "x", "t">>, data)
                                    THEN "next" ELSE "prev",
                                    ParseInt(Split(data, "_")[3]))]
    /\ UNCHANGED <<gateVars, searchVars, pureVars, jobVars, users_col, pages>>

\* lines 1496-1500, once get_search_results has returned frame
PageDone(frame) ==
    IF frame.results # <<>>
    THEN /\ pages' = [pages EXCEPT ![cb.user] =
                         send_results(frame.results, frame.total_count,
                             cb.new_offset,
                             Header("results", cb.query, NoLabel))]
         /\ cb' = [cb EXCEPT !.pc = "done"]
    ELSE /\ pages' = pages
         /\ cb' = [cb EXCEPT !.pc = "done", !.answer = "no_more_results"]

PageRun(title) ==
    /\ cb.pc = "p_search"
    /\ title \in TitlesFor(cb.query, cb.new_offset)
    /\ PageDone(get_search_results(cb.query, cb.new_offset, title))
    /\ UNCHANGED <<gateVars, searchVars, pureVars, jobVars, users_col>>

\* callback_handler, lines 1503-1525: QUALITY, LANGUAGE or SEASON is
\* pressed and the result message becomes a filter menu
FilterMenu(u) ==
    /\ cb.pc \in {"idle", "done"}
    /\ pages[u].shown = "results"
    /\ pages' = [pages EXCEPT ![u] = [NoPage EXCEPT !.shown = "menu"]]
    /\ cb' = [IdleCb EXCEPT !.pc = "done", !.kind = "menu", !.user = u]
    /\ UNCHANGED <<gateVars, searchVars, pureVars, jobVars, users_col>>

\* The filter words a query carries.
FilterCount(query) ==
    Cardinality({i \in DOMAIN Words(query) :
                    \E data \in FilterButtons :
                        Words(query)[i] = Split(data, "_")[3]})

MutNewQueryGlued(old_query, filter_text) == Strip(old_query \o filter_text)

\* line 1534: new_query
NewQuery(old_query, filter_text) == Strip(old_query \o <<" ">> \o filter_text)

\* callback_handler, lines 1527-1534: a press of a button of a filter menu
AddFilterPress(u, data) ==
    /\ cb.pc \in {"idle", "done"}
    /\ pages[u].shown = "menu"
    /\ FilterCount(users_col[u]) < MaxFilters
    /\ IF users_col[u] # <<>>
       THEN cb' = [IdleCb EXCEPT
                      !.pc = "f_update", !.kind = "add_filter", !.user = u,
                      !.filter_text = Split(data, "_")[3],
                      !.old_query = users_col[u],
                      !.query = NewQuery(users_col[u], Split(data, "_")[3])]
       ELSE cb' = [IdleCb EXCEPT !.pc = "done", !.kind = "add_filter",
                                 !.user = u, !.answer = "session_timeout"]
    /\ UNCHANGED <<gateVars, searchVars, pureVars, jobVars, users_col, pages>>

\* line 1536: the new query is saved
AddFilterUpdate ==
    /\ cb.pc = "f_update"
    /\ users_col' = SetLastQuery(users_col, cb.user, cb.query)
    /\ cb' = [cb EXCEPT !.pc = "f_search"]
    /\ UNCHANGED <<gateVars, searchVars, pureVars, jobVars, pages>>

\* lines 1541-1544, once get_search_results has returned frame
AddFilterDone(frame) ==
    IF frame.results # <<>>
    THEN /\ pages' = [pages EXCEPT ![cb.user] =
                         send_results(frame.results, frame.total_count, 0,
                             Header("filtered", cb.query, NoLabel))]
         /\ cb' = [cb EXCEPT !.pc = "done"]
    ELSE /\ pages' = pages
         /\ cb' = [cb EXCEPT !.pc = "f_revert",
                             !.answer = "no_filter_results"]

AddFilterRun(title) ==
    /\ cb.pc = "f_search"
    /\ title \in TitlesFor(cb.query, 0)
    /\ AddFilterDone(get_search_results(cb.query, 0, title))
    /\ UNCHANGED <<gateVars, searchVars, pureVars, jobVars, users_col>>

\* line 1546: the old query is saved again
AddFilterRevert ==
    /\ cb.pc = "f_revert"
    /\ users_col' = SetLastQuery(users_col, cb.user, cb.old_query)
    /\ cb' = [cb EXCEPT !.pc = "done"]
    /\ UNCHANGED <<gateVars, searchVars, pureVars, jobVars, pages>>

\* callback_handler, lines 1551-1552: a press of "Back to Results"
BackPress(u) ==
    /\ cb.pc \in {"idle", "done"}
    /\ pages[u].shown = "menu"
    /\ IF users_col[u] # <<>>
       THEN cb' = [IdleCb EXCEPT !.pc = "b_search", !.kind = "back",
                                 !.user = u, !.query = users_col[u]]
       ELSE cb' = [IdleCb EXCEPT !.pc = "done", !.kind = "back", !.user = u,
                                 !.answer = "expired"]
    /\ UNCHANGED <<gateVars, searchVars, pureVars, jobVars, users_col, pages>>

\* lines 1553-1555: the page is sent whatever get_search_results returned
BackRun(title) ==
    /\ cb.pc = "b_search"
    /\ title \in TitlesFor(cb.query, 0)
    /\ pages' = [pages EXCEPT ![cb.user] =
                    send_results(get_search_results(cb.query, 0, title).results,
                        get_search_results(cb.query, 0, title).total_count, 0,
                        Header("results", cb.query, NoLabel))]
    /\ cb' = [cb EXCEPT !.pc = "done"]
    /\ UNCHANGED <<gateVars, searchVars, pureVars, jobVars, users_col>>

\* process_movie_save, lines 620-670: the next post of the channel is saved
SaveMovie(caption) ==
    /\ Len(movies_col) < MaxCatalog
    /\ Len(Strip(caption)) >= 2
    /\ movies_col' = Append(movies_col,
                            Indexed(CHANNEL_ID, Len(movies_col) + 1, caption, 0))
    /\ UNCHANGED <<verify_col, verification_mode, user_last_start_time, req,
                   nextToken, delivered, out>>
    /\ UNCHANGED nonGateVars

\* callback_handler, lines 1577-1579: an admin confirms /delete_all_movies
DeleteAllMovies ==
    /\ movies_col # <<>>
    /\ movies_col' = <<>>
    /\ UNCHANGED <<verify_col, verification_mode, user_last_start_time, req,
                   nextToken, delivered, out>>
    /\ UNCHANGED nonGateVars

SessionInit ==
    /\ GateAtRest
    /\ verification_mode = FALSE
    /\ movies_col = SessionCatalog
    /\ search = IdleSearch
    /\ fuzz = IdleFuzz
    /\ norm = IdleNorm
    /\ NoSession
    /\ NoJobs

SessionNext ==
    \/ \E u \in Subscribers, text \in SessionQueries : SearchMsg(u, text)
    \/ \E title \in TitlesFor(cb.query, 0) : SearchRun(title)
    \/ \E u \in Subscribers :
           \E data \in {pages[u].prev, pages[u].next} : PagePress(u, data)
    \/ \E title \in TitlesFor(cb.query, cb.new_offset) : PageRun(title)
    \/ \E u \in Subscribers : FilterMenu(u)
    \/ \E u \in Subscribers, data \in FilterButtons : AddFilterPress(u, data)
    \/ AddFilterUpdate
    \/ \E title \in TitlesFor(cb.query, 0) : AddFilterRun(title)
    \/ AddFilterRevert
    \/ \E u \in Subscribers : BackPress(u)
    \/ \E title \in TitlesFor(cb.query, 0) : BackRun(title)
    \/ \E caption \in SessionCaptions : SaveMovie(caption)
    \/ DeleteAllMovies

SessionSpec == SessionInit /\ [][SessionNext]_vars

\* --------------------------------------------------- the indexing scanner
\* batch_size (line 853; 100 in the source), and the number of scans a
\* scanner runs one after the other.
batch_size == 2
MaxRuns == 2

\* The progress text is written when i is a multiple of this (line 894;
\* 200 in the source, twice the batch size).
PROGRESS_EVERY == 2 * batch_size

\* A message as get_messages returns it: empty when the id holds no message.
Gap == [empty |-> TRUE, media |-> FALSE, text |-> <<>>]
Post(media, text) == [empty |-> FALSE, media |-> media, text |-> text]

\* A caption whose first line is one character: a symbol above the title.
StarCaption == <<"*", "\n", "A", "b", "c", "d">>

\* A film post, a text message, a file without caption, a film post under
\* a one-character first line.
Film == Post(TRUE, CaptionOne)
Talk == Post(FALSE, <<"A", "b", "c", "d">>)
Bare == Post(TRUE, <<>>)
Star == Post(TRUE, StarCaption)

\* The channels scanned.
Channels ==
    { <<>>,
      <<Film>>,
      <<Film, Talk>>,
      <<Film, Gap, Film>>,
      <<Star, Film, Bare>>,
      <<Film, Film, Talk, Film>> }

\* text.splitlines()[0]
RECURSIVE FirstLine(_)
FirstLine(text) ==
    IF text = <<>> \/ Head(text) = "\n" THEN <<>>
    ELSE <<Head(text)>> \o FirstLine(Tail(text))

\* line 633
movie_title(text) == Strip(FirstLine(text))

\* process_movie_save, lines 626-636: the message is returned without a save
Rejected(message) ==
    \/ message.text = <<>>
    \/ ~message.media
    \/ Len(movie_title(message.text)) < 2

\* The texts of the messages of the channels.
ChannelTexts == {CaptionOne, StarCaption, <<"A", "b", "c", "d">>}

\* The fields process_movie_save derives from a text (lines 633, 652 and
\* 654), for the texts above.
Derived ==
    [text \in ChannelTexts |->
        [title |-> movie_title(text), title_clean |-> clean_text(text),
         year |-> extract_year(text)]]

\* process_movie_save, lines 646-657
raw_data(chat_id, id, message) ==
    Movie(chat_id, id, Derived[message.text].title,
          Derived[message.text].title_clean, Derived[message.text].year, 0)

\* find_one({"chat_id": chat_id, "message_id": id}) finds a document
Exists(col, chat_id, id) ==
    \E n \in DOMAIN col : col[n].chat_id = chat_id /\ col[n].message_id = id

MutEndIdOneMore(i) == IF i - batch_size > 1 THEN i - batch_size ELSE 1

\* lines 858-860: ids, from start_id = i down to end_id
EndId(i) == IF i - batch_size + 1 > 1 THEN i - batch_size + 1 ELSE 1
Ids(i) == [n \in 1..(i - EndId(i) + 1) |-> i - n + 1]

\* The counts a status text shows.
Counts(sc) == <<sc.total_indexed, sc.already_exists, sc.total_skipped>>

\* The loop of line 856 takes up the batch that starts at i.
EnterBatch(sc, i) ==
    [sc EXCEPT !.pc = "fetch", !.i = i, !.ids = Ids(i),
               !.batches = Append(@, Ids(i)), !.fetches = 0,
               !.messages = <<>>, !.k = 0]

\* The loop of line 856 goes on to the next batch, or ends and the
\* completion text of lines 912-918 is written.
NextBatch(sc) ==
    IF sc.i - batch_size > 0 THEN EnterBatch(sc, sc.i - batch_size)
    ELSE [sc EXCEPT !.pc = "done", !.report = Counts(sc)]

\* The positions of the messages of the batch not yet looked at and not
\* empty (line 875).
After(sc) == {n \in DOMAIN sc.messages : n > sc.k /\ ~sc.messages[n].empty}

\* The loop of line 874 goes on to the next message, or ends.
NextMessage(sc) ==
    IF After(sc) = {} THEN [sc EXCEPT !.pc = "sleep"]
    ELSE [sc EXCEPT !.pc = "m_exists",
                    !.k = CHOOSE n \in After(sc) : \A m \in After(sc) : n <= m]

\* lines 828-853: /index.  The check message takes the next id of the
\* channel and is deleted; the scan starts at its id.
IndexCommand(s) ==
    /\ scan[s].pc \in {"idle", "done"}
    /\ scan[s].run < MaxRuns
    /\ channel' = Append(channel, Gap)
    /\ scan' = [scan EXCEPT ![s] =
                   EnterBatch([IdleScan EXCEPT !.run = scan[s].run + 1,
                                               !.faulted = scan[s].faulted,
                                               !.last_msg_id = Len(channel) + 1,
                                               !.before = movies_col],
                              Len(channel) + 1)]
    /\ UNCHANGED <<gateVars, searchVars, pureVars, sessionVars, auxVars, post,
                   user_ids, bcast>>

\* get_messages(target_chat_id, ids)
Fetched(ids) == [n \in DOMAIN ids |-> channel[ids[n]]]

\* lines 862-872: get_messages returns, raises FloodWait or raises another
\* error
Fetch(s, outcome) ==
    /\ scan[s].pc = "fetch"
    /\ LET sc == [scan[s] EXCEPT !.fetches = @ + 1]
       IN  scan' = [scan EXCEPT ![s] =
               CASE outcome = "ok" ->
                        NextMessage([sc EXCEPT !.messages = Fetched(sc.ids)])
                 [] outcome = "flood" ->
                        [sc EXCEPT !.pc = "refetch", !.faulted = TRUE]
                 [] OTHER -> NextBatch([sc EXCEPT !.faulted = TRUE])]
    /\ UNCHANGED <<gateVars, searchVars, pureVars, sessionVars, auxVars, channel, post,
                   user_ids, bcast>>

MutRefetchUntilFetched(s, outcome) ==
    /\ scan[s].pc = "refetch"
    /\ LET sc == [scan[s] EXCEPT !.fetches = @ + 1]
       IN  scan' = [scan EXCEPT ![s] =
               IF outcome = "ok"
               THEN NextMessage([sc EXCEPT !.messages = Fetched(sc.ids)])
               ELSE sc]
    /\ UNCHANGED <<gateVars, searchVars, pureVars, sessionVars, auxVars, channel, post,
                   user_ids, bcast>>

\* lines 864-866: after the sleep get_messages is called again; when it
\* raises, the except of line 905 ends the iteration.
Refetch(s, outcome) ==
    /\ scan[s].pc = "refetch"
    /\ LET sc == [scan[s] EXCEPT !.fetches = @ + 1]
       IN  scan' = [scan EXCEPT ![s] =
               IF outcome = "ok"
               THEN NextMessage([sc EXCEPT !.messages = Fetched(sc.ids)])
               ELSE NextBatch(sc)]
    /\ UNCHANGED <<gateVars, searchVars, pureVars, sessionVars, auxVars, channel, post,
                   user_ids, bcast>>

MutMsgExistsLeftToSave(s, outcome) ==
    /\ scan[s].pc = "m_exists"
    /\ LET sc == scan[s]
           message == sc.messages[sc.k]
       IN  scan' = [scan EXCEPT ![s] =
               IF outcome # "ok" THEN NextMessage([sc EXCEPT !.faulted = TRUE])
               ELSE IF Rejected(message)
                    THEN NextMessage([sc EXCEPT !.total_skipped = @ + 1])
               ELSE [sc EXCEPT !.pc = "m_find"]]
    /\ UNCHANGED <<gateVars, searchVars, pureVars, sessionVars, auxVars, channel, post,
                   user_ids, bcast>>

\* lines 878-888: find_one; the entry exists, or process_movie_save is
\* called and returns at once, or goes on to its own find_one.  When
\* find_one raises, line 889 logs it.
MsgExists(s, outcome) ==
    /\ scan[s].pc = "m_exists"
    /\ LET sc == scan[s]
           message == sc.messages[sc.k]
       IN  scan' = [scan EXCEPT ![s] =
               IF outcome # "ok" THEN NextMessage([sc EXCEPT !.faulted = TRUE])
               ELSE IF Exists(movies_col, CHANNEL_ID, sc.ids[sc.k])
                    THEN NextMessage([sc EXCEPT !.already_exists = @ + 1])
               ELSE IF Rejected(message)
                    THEN NextMessage([sc EXCEPT !.total_skipped = @ + 1])
               ELSE [sc EXCEPT !.pc = "m_find"]]
    /\ UNCHANGED <<gateVars, searchVars, pureVars, sessionVars, auxVars, channel, post,
                   user_ids, bcast>>

\* process_movie_save, lines 660-661 and 670
MsgFind(s) ==
    /\ scan[s].pc = "m_find"
    /\ LET sc == scan[s]
       IN  scan' = [scan EXCEPT ![s] =
               IF Exists(movies_col, CHANNEL_ID, sc.ids[sc.k])
               THEN NextMessage([sc EXCEPT !.total_skipped = @ + 1])
               ELSE [sc EXCEPT !.pc = "m_insert"]]
    /\ UNCHANGED <<gateVars, searchVars, pureVars, sessionVars, auxVars, channel, post,
                   user_ids, bcast>>

\* process_movie_save, lines 662-670: insert_one returns or raises
MsgInsert(s, outcome) ==
    /\ scan[s].pc = "m_insert"
    /\ LET sc == scan[s]
       IN  IF outcome = "ok"
           THEN /\ movies_col' = Append(movies_col,
                                    raw_data(CHANNEL_ID, sc.ids[sc.k],
                                             sc.messages[sc.k]))
                /\ scan' = [scan EXCEPT ![s] =
                               NextMessage([sc EXCEPT !.total_indexed = @ + 1])]
           ELSE /\ movies_col' = movies_col
                /\ scan' = [scan EXCEPT ![s] =
                               NextMessage([sc EXCEPT !.total_skipped = @ + 1,
                                                      !.faulted = TRUE])]
    /\ UNCHANGED <<verify_col, verification_mode, user_last_start_time, req,
                   nextToken, delivered, out>>
    /\ UNCHANGED <<searchVars, pureVars, sessionVars, auxVars, channel, post,
                   user_ids, bcast>>

\* lines 892-903: the sleep after a batch, and the progress text
BatchSleep(s) ==
    /\ scan[s].pc = "sleep"
    /\ LET sc == scan[s]
       IN  scan' = [scan EXCEPT ![s] =
               NextBatch(IF sc.i % PROGRESS_EVERY = 0
                         THEN [sc EXCEPT !.rendered = @ + 1]
                         ELSE sc)]
    /\ UNCHANGED <<gateVars, searchVars, pureVars, sessionVars, auxVars, channel, post,
                   user_ids, bcast>>

\* ----------------------------------------------------- real-time ingestion
\* The posts that arrive while the scanners run.
MaxPosts == 1

\* save_post, lines 807-809: a post arrives in the channel, and
\* process_movie_save goes as far as its find_one or returns at once.
NewPost(message) ==
    /\ post.pc \in {"idle", "done"}
    /\ ~post.task
    /\ Cardinality({n \in DOMAIN channel : ~channel[n].empty}) < MaxPosts
    /\ channel' = Append(channel, message)
    /\ post' = [IdlePost EXCEPT
                   !.pc = IF Rejected(message) THEN "done" ELSE "p_find",
                   !.id = Len(channel) + 1]
    /\ UNCHANGED <<gateVars, searchVars, pureVars, sessionVars, auxVars, scan,
                   user_ids, bcast>>

\* process_movie_save, lines 660-661 and 670
PostFind ==
    /\ post.pc = "p_find"
    /\ post' = [post EXCEPT !.pc =
                   IF Exists(movies_col, CHANNEL_ID, post.id) THEN "done"
                   ELSE "p_insert"]
    /\ UNCHANGED <<gateVars, searchVars, pureVars, sessionVars, auxVars, channel, scan,
                   user_ids, bcast>>

\* process_movie_save, lines 661-664, and save_post, lines 809-812: the
\* entry is inserted and the title returned.
PostInsert ==
    /\ post.pc = "p_insert"
    /\ movies_col' = Append(movies_col,
                            raw_data(CHANNEL_ID, post.id, channel[post.id]))
    /\ post' = [post EXCEPT !.pc = "p_setting", !.created = TRUE]
    /\ UNCHANGED <<verify_col, verification_mode, user_last_start_time, req,
                   nextToken, delivered, out>>
    /\ UNCHANGED <<searchVars, pureVars, sessionVars, auxVars, channel, scan,
                   user_ids, bcast>>

\* the value of a setting, as history keeps it
OnOff(value) == IF value THEN "on" ELSE "off"

\* save_post, lines 812-815: global_notify is read, and the
\* auto_broadcast_worker task created when it is on.
PostSetting ==
    /\ post.pc = "p_setting"
    /\ post' = [post EXCEPT !.pc = "done", !.setting = OnOff(global_notify),
                            !.task = global_notify]
    /\ UNCHANGED <<gateVars, searchVars, pureVars, sessionVars, auxVars,
                   channel, scan, user_ids, bcast>>

\* notify_command, lines 1164-1171: /notify on, /notify off
NotifyCommand(new_value) ==
    /\ global_notify # new_value
    /\ global_notify' = new_value
    /\ UNCHANGED <<gateVars, searchVars, pureVars, sessionVars, channel, scan,
                   post, user_ids, bcast, runs, notify, moreVars>>

\* What a call of the scanner can do.
Outcomes == {"ok", "flood", "error"}

IndexInit ==
    /\ GateAtRest
    /\ verification_mode = TRUE
    /\ movies_col = <<>>
    /\ search = IdleSearch
    /\ fuzz = IdleFuzz
    /\ norm = IdleNorm
    /\ NoSession
    /\ channel \in Channels
    /\ scan = [s \in Scanners |-> IdleScan]
    /\ post = IdlePost
    /\ user_ids = {}
    /\ bcast = IdleBcast
    /\ NoAux

\* One scanner, run again when it is done.
IndexNext ==
    \/ IndexCommand(1)
    \/ \E outcome \in Outcomes : Fetch(1, outcome)
    \/ \E outcome \in Outcomes \ {"flood"} : Refetch(1, outcome)
    \/ \E outcome \in Outcomes \ {"flood"} : MsgExists(1, outcome)
    \/ MsgFind(1)
    \/ \E outcome \in Outcomes \ {"flood"} : MsgInsert(1, outcome)
    \/ BatchSleep(1)

IndexSpec == IndexInit /\ [][IndexNext]_vars

\* The event loop resumes a scanner whose awaited call has returned.
IndexLiveSpec == IndexSpec /\ WF_vars(IndexNext)

\* ------------------------------------------------------ the broadcast engine
\* The value of the semaphore of line 700 (20 in the source).
SEMAPHORE == 2

\* The errors that say the subscriber cannot be reached.
Unreachable == {"InputUserDeactivated", "UserIsBlocked", "PeerIdInvalid"}

\* What a send can do: return, or raise one of these.
SendOutcomes == {"ok", "FloodWait", "error"} \cup Unreachable

\* users_col.find(...): the cursor over the subscribers, in _id order
RECURSIVE Cursor(_)
Cursor(ids) ==
    IF ids = {} THEN <<>>
    ELSE LET u == CHOOSE x \in ids : \A y \in ids : x <= y
         IN  <<u>> \o Cursor(ids \ {u})

\* The workers that hold the semaphore: from the first call of
\* message_func to the last statement of send_worker.
InFlight(b) == {u \in Recipients : b.worker[u].pc \in {"send", "sleep", "resend", "delete"}}

MutRetriedAfterAnyError(outcome) == outcome # "ok"

\* lines 709 and 1104: the error after which the send is tried again
Retried(outcome) == outcome = "FloodWait"

MutNotifiedOptedIn(ids, flags) == {u \in ids : flags[u] = "True"}

\* {"notify": {"$ne": False}}, lines 782 and 799
Notified(ids, flags) == {u \in ids : flags[u] # "False"}

\* The subscribers a broadcast goes to: the filter of lines 782 and 799,
\* or every document (lines 1088-1089).
Target(kind) ==
    IF kind = "auto" THEN Notified(user_ids, notify) ELSE user_ids

\* auto_broadcast_worker, lines 782-783, and broadcast_handler, line 1088:
\* the task that save_post created runs, or the operator sends
\* /broadcast; count_documents returns, and without a subscriber the
\* notification ends here.
StartBroadcast(kind) ==
    /\ bcast.pc = "idle"
    /\ kind = "auto" => post.task
    /\ post' = IF kind = "auto"
               THEN [post EXCEPT !.task = FALSE, !.started = @ + 1]
               ELSE post
    /\ bcast' = IF kind = "auto" /\ Target(kind) = {}
                THEN bcast
                ELSE [bcast EXCEPT !.pc = "counted", !.kind = kind,
                                   !.total_users = Cardinality(Target(kind))]
    /\ UNCHANGED <<gateVars, searchVars, pureVars, sessionVars, auxVars,
                   channel, scan, user_ids>>

\* auto_broadcast_worker, lines 785-800, and broadcast_messages, lines
\* 695-752; broadcast_handler, lines 1089-1096: the status message is
\* there, the subscribers are read, and broadcast_messages has created the
\* update_status_loop task.
OpenCursor ==
    /\ bcast.pc = "counted"
    /\ bcast' = [bcast EXCEPT !.pc = "running",
                              !.cursor = Cursor(Target(bcast.kind)),
                              !.reporter = IF bcast.kind = "auto"
                                           THEN "sleep" ELSE "none"]
    /\ UNCHANGED <<gateVars, searchVars, pureVars, sessionVars, auxVars, channel, scan,
                   post, user_ids>>

\* send_worker, line 717, of another notification that runs at the same
\* time: a subscriber is deleted between the count and the read.
PeerDelete(u) ==
    /\ bcast.pc = "counted"
    /\ u \in user_ids
    /\ user_ids' = user_ids \ {u}
    /\ UNCHANGED <<gateVars, searchVars, pureVars, sessionVars, auxVars, channel, scan,
                   post, bcast>>

\* active_tasks: the send_worker tasks that have not returned
ActiveTasks(b) == {u \in Recipients : b.worker[u].pc \notin {"none", "done"}}

\* update_status_loop, lines 724-744: the sleep is over; nothing is shown
\* before the first send is counted, else the progress text is sent.
ReporterWake ==
    /\ bcast.reporter = "sleep"
    /\ bcast.total_users # 0
    /\ bcast.success + bcast.failed # 0
    /\ bcast' = [bcast EXCEPT !.reporter = "edit",
                              !.stale = bcast.success + bcast.failed,
                              !.late = @ \/ bcast.pc = "done"]
    /\ UNCHANGED <<gateVars, searchVars, pureVars, sessionVars, auxVars, channel, scan,
                   post, user_ids>>

\* line 747, with done as it was before the edit
ReporterBreaks(b) == b.stale >= b.total_users /\ ActiveTasks(b) = {}

\* update_status_loop, lines 742-748: the edit returns, raises, or is
\* cancelled (the bare except of line 745 takes all three), and the loop
\* ends or sleeps again.
ReporterEditReturn(outcome) ==
    /\ bcast.reporter = "edit"
    /\ bcast' = [bcast EXCEPT !.reporter = IF ReporterBreaks(bcast)
                                           THEN "ended" ELSE "sleep"]
    /\ UNCHANGED <<gateVars, searchVars, pureVars, sessionVars, auxVars, channel, scan,
                   post, user_ids>>

\* broadcast_messages, lines 752-758: a send_worker task is created for
\* the next subscriber of the cursor; it waits for the semaphore.
Dispatch ==
    /\ bcast.pc = "running"
    /\ bcast.kind = "auto"
    /\ bcast.cursor # <<>>
    /\ bcast' = [bcast EXCEPT !.cursor = Tail(@),
                              !.worker[Head(bcast.cursor)].pc = "queued"]
    /\ UNCHANGED <<gateVars, searchVars, pureVars, sessionVars, auxVars, channel, scan,
                   post, user_ids>>

MutAcquireWithoutLimit(u) ==
    /\ bcast.kind = "auto"
    /\ bcast.worker[u].pc = "queued"
    /\ bcast' = [bcast EXCEPT !.worker[u].pc = "send", !.worker[u].calls = 1]
    /\ UNCHANGED <<gateVars, searchVars, pureVars, sessionVars, auxVars, channel, scan,
                   post, user_ids>>

\* send_worker, lines 703-707: the semaphore is taken and message_func
\* called.
Acquire(u) ==
    /\ bcast.kind = "auto"
    /\ bcast.worker[u].pc = "queued"
    /\ Cardinality(InFlight(bcast)) < SEMAPHORE
    /\ bcast' = [bcast EXCEPT !.worker[u].pc = "send", !.worker[u].calls = 1]
    /\ UNCHANGED <<gateVars, searchVars, pureVars, sessionVars, auxVars, channel, scan,
                   post, user_ids>>

\* send_worker, lines 706-720: the first call of message_func returns or
\* raises.
SendReturn(u, outcome) ==
    /\ bcast.kind = "auto"
    /\ bcast.worker[u].pc = "send"
    /\ LET w == [bcast.worker[u] EXCEPT !.first = outcome, !.last = outcome]
       IN  bcast' =
               IF outcome = "ok"
               THEN [bcast EXCEPT !.success = @ + 1,
                                  !.worker[u] = [w EXCEPT !.pc = "done", !.counted = "success"]]
               ELSE IF Retried(outcome)
               THEN [bcast EXCEPT !.worker[u] = [w EXCEPT !.pc = "sleep"]]
               ELSE IF outcome \in Unreachable
               THEN [bcast EXCEPT !.worker[u] = [w EXCEPT !.pc = "delete"]]
               ELSE [bcast EXCEPT !.failed = @ + 1,
                                  !.worker[u] = [w EXCEPT !.pc = "done", !.counted = "failed"]]
    /\ UNCHANGED <<gateVars, searchVars, pureVars, sessionVars, auxVars, channel, scan,
                   post, user_ids>>

\* send_worker, lines 709-712: the sleep is over and message_func is called
\* again.
Wake(u) ==
    /\ bcast.kind = "auto"
    /\ bcast.worker[u].pc = "sleep"
    /\ bcast' = [bcast EXCEPT !.worker[u].pc = "resend",
                              !.worker[u].slept = TRUE,
                              !.worker[u].calls = @ + 1]
    /\ UNCHANGED <<gateVars, searchVars, pureVars, sessionVars, auxVars, channel, scan,
                   post, user_ids>>

\* send_worker, lines 711-715: the second call returns or raises.
ResendReturn(u, outcome) ==
    /\ bcast.kind = "auto"
    /\ bcast.worker[u].pc = "resend"
    /\ LET w == [bcast.worker[u] EXCEPT !.last = outcome, !.pc = "done"]
       IN  bcast' =
               IF outcome = "ok"
               THEN [bcast EXCEPT !.success = @ + 1,
                                  !.worker[u] = [w EXCEPT !.counted = "success"]]
               ELSE [bcast EXCEPT !.failed = @ + 1,
                                  !.worker[u] = [w EXCEPT !.counted = "failed"]]
    /\ UNCHANGED <<gateVars, searchVars, pureVars, sessionVars, auxVars, channel, scan,
                   post, user_ids>>

\* send_worker, lines 716-718: delete_one returns.
DeleteReturn(u) ==
    /\ bcast.kind = "auto"
    /\ bcast.worker[u].pc = "delete"
    /\ user_ids' = user_ids \ {u}
    /\ bcast' = [bcast EXCEPT !.failed = @ + 1,
                              !.worker[u].pc = "done",
                              !.worker[u].counted = "failed"]
    /\ UNCHANGED <<gateVars, searchVars, pureVars, sessionVars, auxVars, channel, scan,
                   post>>

\* broadcast_messages, lines 760-770: no task is left, the reporter is
\* cancelled and the final text is written.  A reporter that sleeps ends
\* with the CancelledError; one that waits for its edit catches it.
Finish ==
    /\ bcast.pc = "running"
    /\ bcast.kind = "auto"
    /\ bcast.cursor = <<>>
    /\ ActiveTasks(bcast) = {}
    /\ bcast' = [bcast EXCEPT !.pc = "done",
                              !.report = <<bcast.success, bcast.failed>>,
                              !.reporter = IF @ = "sleep" THEN "ended" ELSE @]
    /\ UNCHANGED <<gateVars, searchVars, pureVars, sessionVars, auxVars, channel, scan,
                   post, user_ids>>

\* broadcast_handler, lines 1096-1101: the loop takes the next subscriber
\* of the cursor and copies the message to them.
OpCopy ==
    /\ bcast.pc = "running"
    /\ bcast.kind = "operator"
    /\ bcast.cursor # <<>>
    /\ InFlight(bcast) = {}
    /\ bcast' = [bcast EXCEPT !.cursor = Tail(@),
                              !.worker[Head(bcast.cursor)].pc = "send",
                              !.worker[Head(bcast.cursor)].calls = 1]
    /\ UNCHANGED <<gateVars, searchVars, pureVars, sessionVars, auxVars, channel, scan,
                   post, user_ids>>

\* broadcast_handler, lines 1101-1123: the copy returns or raises.
OpReturn(u, outcome) ==
    /\ bcast.kind = "operator"
    /\ bcast.worker[u].pc = "send"
    /\ LET w == [bcast.worker[u] EXCEPT !.first = outcome, !.last = outcome]
       IN  bcast' =
               IF outcome = "ok"
               THEN [bcast EXCEPT !.success = @ + 1,
                                  !.worker[u] = [w EXCEPT !.pc = "done", !.counted = "success"]]
               ELSE IF Retried(outcome)
               THEN [bcast EXCEPT !.worker[u] = [w EXCEPT !.pc = "sleep"]]
               ELSE IF outcome = "UserIsBlocked"
               THEN [bcast EXCEPT !.blocked = @ + 1,
                                  !.worker[u] = [w EXCEPT !.pc = "done", !.counted = "blocked"]]
               ELSE IF outcome = "InputUserDeactivated"
               THEN [bcast EXCEPT !.deleted = @ + 1,
                                  !.worker[u] = [w EXCEPT !.pc = "delete", !.counted = "deleted"]]
               ELSE [bcast EXCEPT !.failed = @ + 1,
                                  !.worker[u] = [w EXCEPT !.pc = "done", !.counted = "failed"]]
    /\ UNCHANGED <<gateVars, searchVars, pureVars, sessionVars, auxVars, channel, scan,
                   post, user_ids>>

\* broadcast_handler, lines 1104-1108: the sleep is over and the copy is
\* tried again.
OpWake(u) ==
    /\ bcast.kind = "operator"
    /\ bcast.worker[u].pc = "sleep"
    /\ bcast' = [bcast EXCEPT !.worker[u].pc = "resend",
                              !.worker[u].slept = TRUE,
                              !.worker[u].calls = @ + 1]
    /\ UNCHANGED <<gateVars, searchVars, pureVars, sessionVars, auxVars, channel, scan,
                   post, user_ids>>

\* broadcast_handler, lines 1107-1111: the second copy returns or raises.
OpRetryReturn(u, outcome) ==
    /\ bcast.kind = "operator"
    /\ bcast.worker[u].pc = "resend"
    /\ LET w == [bcast.worker[u] EXCEPT !.last = outcome, !.pc = "done"]
       IN  bcast' =
               IF outcome = "ok"
               THEN [bcast EXCEPT !.success = @ + 1,
                                  !.worker[u] = [w EXCEPT !.counted = "success"]]
               ELSE [bcast EXCEPT !.failed = @ + 1,
                                  !.worker[u] = [w EXCEPT !.counted = "failed"]]
    /\ UNCHANGED <<gateVars, searchVars, pureVars, sessionVars, auxVars, channel, scan,
                   post, user_ids>>

\* broadcast_handler, lines 1117-1120: delete_one returns.
OpDelete(u) ==
    /\ bcast.kind = "operator"
    /\ bcast.worker[u].pc = "delete"
    /\ user_ids' = user_ids \ {u}
    /\ bcast' = [bcast EXCEPT !.worker[u].pc = "done"]
    /\ UNCHANGED <<gateVars, searchVars, pureVars, sessionVars, auxVars, channel, scan,
                   post>>

\* broadcast_handler, lines 1136-1146: the cursor is used up and the final
\* report is written.
OpFinish ==
    /\ bcast.pc = "running"
    /\ bcast.kind = "operator"
    /\ bcast.cursor = <<>>
    /\ InFlight(bcast) = {}
    /\ bcast' = [bcast EXCEPT !.pc = "done",
                              !.report = <<bcast.success, bcast.blocked,
                                           bcast.deleted, bcast.failed>>]
    /\ UNCHANGED <<gateVars, searchVars, pureVars, sessionVars, auxVars, channel, scan,
                   post, user_ids>>

BroadcastInit ==
    /\ GateAtRest
    /\ verification_mode = TRUE
    /\ movies_col = <<>>
    /\ search = IdleSearch
    /\ fuzz = IdleFuzz
    /\ norm = IdleNorm
    /\ NoSession
    /\ channel = <<>>
    /\ scan = [s \in Scanners |-> IdleScan]
    /\ post = SavedPost
    /\ user_ids = Recipients
    /\ bcast = IdleBcast
    /\ NoAux

BroadcastNext ==
    \/ \E kind \in {"auto", "operator"} : StartBroadcast(kind)
    \/ OpenCursor
    \/ Dispatch
    \/ Finish
    \/ OpCopy
    \/ OpFinish
    \/ \E u \in Recipients :
           \/ Acquire(u)
           \/ \E outcome \in SendOutcomes : SendReturn(u, outcome)
           \/ Wake(u)
           \/ \E outcome \in SendOutcomes : ResendReturn(u, outcome)
           \/ DeleteReturn(u)
           \/ \E outcome \in SendOutcomes : OpReturn(u, outcome)
           \/ OpWake(u)
           \/ \E outcome \in SendOutcomes : OpRetryReturn(u, outcome)
           \/ OpDelete(u)

BroadcastSpec == BroadcastInit /\ [][BroadcastNext]_vars

\* Real-time ingestion next to the scanners.
IngestInit ==
    /\ GateAtRest
    /\ verification_mode = TRUE
    /\ movies_col = <<>>
    /\ search = IdleSearch
    /\ fuzz = IdleFuzz
    /\ norm = IdleNorm
    /\ NoSession
    /\ channel = <<>>
    /\ scan = [s \in Scanners |-> IdleScan]
    /\ post = IdlePost
    /\ user_ids = {}
    /\ bcast = IdleBcast
    /\ NoAux

\* Posts arrive while two scanners run, and every call returns.
IngestNext ==
    \/ \E message \in {Film, Talk} : NewPost(message)
    \/ PostFind
    \/ PostInsert
    \/ PostSetting
    \/ StartBroadcast("auto")
    \/ \E s \in Scanners :
           \/ IndexCommand(s)
           \/ Fetch(s, "ok")
           \/ MsgExists(s, "ok")
           \/ MsgFind(s)
           \/ MsgInsert(s, "ok")
           \/ BatchSleep(s)

IngestSpec == IngestInit /\ [][IngestNext]_vars

\* The users collection when a post arrives: documents made by /start
\* have notify True (line 935), those made by a search have no notify
\* field (line 1274).
NotifyInit ==
    /\ GateAtRest
    /\ verification_mode = TRUE
    /\ movies_col = <<>>
    /\ search = IdleSearch
    /\ fuzz = IdleFuzz
    /\ norm = IdleNorm
    /\ NoSession
    /\ channel = <<>>
    /\ scan = [s \in Scanners |-> IdleScan]
    /\ post = IdlePost
    /\ user_ids \in SUBSET TwinUsers
    /\ bcast = IdleBcast
    /\ runs = <<>>
    /\ global_notify = TRUE
    /\ notify \in [Recipients -> {"True", "absent"}]
    /\ \A u \in Recipients \ user_ids : notify[u] = "True"
    /\ NoMore

\* save_post and its notification up to the read of the subscribers, next
\* to a scanner, /notify and another notification.
NotifyNext ==
    \/ \E message \in {Film, Talk} : NewPost(message)
    \/ PostFind
    \/ PostInsert
    \/ PostSetting
    \/ \E new_value \in BOOLEAN : NotifyCommand(new_value)
    \/ StartBroadcast("auto")
    \/ OpenCursor
    \/ \E u \in TwinUsers : PeerDelete(u)
    \/ IndexCommand(1)
    \/ Fetch(1, "ok")
    \/ MsgExists(1, "ok")
    \/ MsgFind(1)
    \/ MsgInsert(1, "ok")
    \/ BatchSleep(1)

NotifySpec == NotifyInit /\ [][NotifyNext]_vars

\* A broadcast is over and the next one can start: what it did is kept.
RunOver ==
    /\ bcast.pc = "done"
    /\ runs = <<>>
    /\ runs' = <<[kind |-> bcast.kind, worker |-> bcast.worker,
                  user_ids |-> user_ids]>>
    /\ bcast' = IdleBcast
    /\ UNCHANGED <<gateVars, searchVars, pureVars, sessionVars, channel, scan,
                   post, user_ids, global_notify, notify, moreVars>>

\* start, lines 933-937: a subscriber who was removed sends /start and is
\* in the users collection again.
Resubscribe(u) ==
    /\ bcast.pc = "idle"
    /\ runs # <<>>
    /\ u \notin user_ids
    /\ user_ids' = user_ids \cup {u}
    /\ notify' = [notify EXCEPT ![u] = "True"]
    /\ UNCHANGED <<gateVars, searchVars, pureVars, sessionVars, channel, scan,
                   post, bcast, runs, global_notify, moreVars>>

TwinInit ==
    /\ GateAtRest
    /\ verification_mode = TRUE
    /\ movies_col = <<>>
    /\ search = IdleSearch
    /\ fuzz = IdleFuzz
    /\ norm = IdleNorm
    /\ NoSession
    /\ channel = <<>>
    /\ scan = [s \in Scanners |-> IdleScan]
    /\ post = SavedPost
    /\ user_ids = TwinUsers
    /\ bcast = IdleBcast
    /\ NoAux

\* A notification, then a /broadcast of the operator.
TwinNext ==
    \/ StartBroadcast(IF runs = <<>> THEN "auto" ELSE "operator")
    \/ OpenCursor
    \/ Dispatch
    \/ Finish
    \/ RunOver
    \/ OpCopy
    \/ OpFinish
    \/ \E u \in TwinUsers :
           \/ Resubscribe(u)
           \/ Acquire(u)
           \/ \E outcome \in SendOutcomes : SendReturn(u, outcome)
           \/ Wake(u)
           \/ \E outcome \in SendOutcomes : ResendReturn(u, outcome)
           \/ DeleteReturn(u)
           \/ \E outcome \in SendOutcomes : OpReturn(u, outcome)
           \/ OpWake(u)
           \/ \E outcome \in SendOutcomes : OpRetryReturn(u, outcome)
           \/ OpDelete(u)

TwinSpec == TwinInit /\ [][TwinNext]_vars

\* A notification with its reporter, next to another notification that
\* deletes subscribers; a send returns or raises.
ReporterNext ==
    \/ StartBroadcast("auto")
    \/ OpenCursor
    \/ Dispatch
    \/ Finish
    \/ ReporterWake
    \/ \E outcome \in {"ok", "error"} : ReporterEditReturn(outcome)
    \/ \E u \in Recipients :
           \/ PeerDelete(u)
           \/ Acquire(u)
           \/ \E outcome \in {"ok", "error"} : SendReturn(u, outcome)

\* The event loop resumes every task whose awaited call has returned, and
\* every sleep ends.
ReporterSpec ==
    /\ BroadcastInit
    /\ [][ReporterNext]_vars
    /\ WF_vars(Dispatch)
    /\ WF_vars(Finish)
    /\ WF_vars(ReporterWake)
    /\ WF_vars(\E outcome \in {"ok", "error"} : ReporterEditReturn(outcome))
    /\ \A u \in Recipients :
           /\ WF_vars(Acquire(u))
           /\ WF_vars(\E outcome \in {"ok", "error"} : SendReturn(u, outcome))

\* ----------------------------------------------------------------- claims
InStore(t) == FindToken(verify_col, t) # {}

\* The document of token t is in the store, advanced, and owned by u.
Redeemable(col, t, u) ==
    \E d \in col : d.token = t /\ d.step = 2 /\ d.user_id = u

\* C1: a redemption handler goes on to the copy only if the token it read
\* was in the store, in step 2 and owned by the requester, and every copy
\* made through a verified link is made by a handler that passed that read.
C1_DeliveryOnlyAfterValidRead ==
    [][ /\ \A r \in Requests :
             req'[r].pc = "v_copy" =>
                 \/ req[r].pc = "v_copy"
                 \/ /\ req[r].pc = "v_find"
                    /\ Redeemable(verify_col, req[r].arg, req[r].user)
        /\ \A t \in Tokens :
             delivered'[t] # delivered[t] =>
                 \E r \in Requests : /\ req[r].pc = "v_copy"
                                     /\ req[r].arg = t
                                     /\ req'[r].pc = "v_delete" ]_vars

C1_Witness == \E t \in Tokens : delivered[t] >= 1

\* C2 (as claimed): the content gated by a token is copied at most once.
C2_AtMostOneDelivery == \A t \in Tokens : delivered[t] <= 1

\* C3: a denied redemption replies "expired" exactly when the token is not
\* in the store, "not_yours" exactly when it is there and owned by someone
\* else, "incomplete" exactly when it is the requester's and in step 1; it
\* changes neither the verification store, the catalog nor the deliveries.
C3_DeniedRedemption ==
    [][ \A r \in Requests :
          (req[r].pc = "v_find" /\ req'[r].pc = "done") =>
              LET data == FindToken(verify_col, req[r].arg) IN
              /\ out'.to = req[r].user
              /\ out'.text =
                     IF data = {} THEN "expired"
                     ELSE IF \E d \in data : d.user_id # req[r].user
                          THEN "not_yours"
                          ELSE "incomplete"
              /\ out'.text = "incomplete" => \A d \in data : d.step = 1
              /\ verify_col' = verify_col
              /\ movies_col' = movies_col
              /\ delivered' = delivered ]_vars

C3_Witness ==
    /\ out.text = "not_yours"
    /\ \E d \in verify_col : d.token = out.token /\ d.user_id # out.to

\* C4: the step-completion signal sets the step of an existing token to 2
\* and leaves its other fields and the other tokens alone; on a token that
\* is not in the store it changes nothing and answers "expired"; a step is
\* 1 or 2 and never goes from 2 back to 1.
C4_StepSignal ==
    /\ [][ /\ \A t \in Tokens :
                VerifyPageTwo(t) =>
                    IF FindToken(verify_col, t) = {}
                    THEN verify_col' = verify_col /\ PageTwoResponse(t) = "expired"
                    ELSE /\ PageTwoResponse(t) = "step2"
                         /\ \E d \in verify_col :
                              /\ d.token = t
                              /\ verify_col' = (verify_col \ {d}) \cup
                                                   {[d EXCEPT !.step = 2]}
           /\ \A d \in verify_col, e \in verify_col' :
                (d.token = e.token /\ d.step = 2) => e.step = 2 ]_vars
    /\ [](\A d \in verify_col : d.step \in {1, 2})

C4_Witness == \E d \in verify_col : d.step = 2 /\ d.user_id = 2

\* The catalog with the view count of entry (chat, mid) incremented.
IncEntry(chat, mid) ==
    [i \in DOMAIN movies_col |->
        IF movies_col[i].chat_id = chat /\ movies_col[i].message_id = mid
        THEN [movies_col[i] EXCEPT !.views_count = @ + 1]
        ELSE movies_col[i]]

\* C5 (as claimed): the view count update that follows a delivery
\* increments the entry (chat_id, message_id) that was copied, and no other.
C5_ViewCountOfDeliveredEntry ==
    [][ \A r \in Requests :
          /\ (req[r].pc = "v_inc" /\ req'[r].pc = "done") =>
                 \A d \in req[r].verify_data :
                     movies_col' = IncEntry(req[r].source_chat_id, d.movie_id)
          /\ (req[r].pc = "w_copy" /\ req'[r].pc = "done"
                  /\ out'.text # "not_found") =>
                 movies_col' = IncEntry(req[r].source_chat_id, req[r].arg)
      ]_vars

\* C6 (as claimed): the token created for entry m shown to user u stores
\* m's own (chat_id, message_id).
C6_TokenRefersToSelectedEntry ==
    [][ \A u \in Users, m \in Range(movies_col) :
          PageLink(u, m) =>
              \E d \in verify_col' \ verify_col :
                  d.chat_id = m.chat_id /\ d.movie_id = m.message_id ]_vars

\* C7: a watch_ request that reads verification mode as enabled ends
\* without passing through the copy; it adds exactly one document to the
\* verification store, with a fresh token, step 1 and the requester as
\* owner, replies with the link of that token, and leaves the catalog and
\* the deliveries alone.
C7_WatchIssuesToken ==
    [][ \A r \in Requests :
          (req[r].pc = "w_find" /\ verification_mode /\ req'[r] # req[r]) =>
              /\ req'[r].pc = "done"
              /\ \E d \in verify_col' \ verify_col :
                    /\ verify_col' = verify_col \cup {d}
                    /\ \A e \in verify_col : e.token # d.token
                    /\ d.step = 1
                    /\ d.user_id = req[r].user
                    /\ d.movie_id = req[r].arg
                    /\ out' = Reply(req[r].user, "locked", d.token)
              /\ movies_col' = movies_col
              /\ delivered' = delivered ]_vars

C7_Witness == out.text = "locked" /\ InStore(out.token)

\* C8: every token in the store eventually leaves it; a token that is due
\* can be removed whatever its step; and for a token that has left the
\* store both the step-completion signal and a redemption by any user
\* answer as for an unknown token.
C8_TokenLeavesStore ==
    /\ \A t \in Tokens : InStore(t) ~> ~InStore(t)
    /\ [](\A d \in verify_col : d.age >= TTL_SECONDS => ENABLED TTLExpire(d))
    /\ [](\A t \in Tokens :
            (t <= nextToken /\ ~InStore(t)) =>
                /\ PageTwoResponse(t) = "expired"
                /\ SetStepTwo(verify_col, t) = verify_col
                /\ \A u \in Users :
                     RedeemDecision(FindToken(verify_col, t), u) = "expired")

C8_Witness ==
    /\ nextToken >= 1
    /\ \A t \in Tokens : delivered[t] = 0
    /\ verify_col = {}

\* C9: when copy_message raises in a redemption, the step changes neither
\* the verification store, the catalog nor the deliveries and replies with
\* the failure text; a token that was redeemable by the requester before
\* the step is redeemable after it.
C9_FailedCopyKeepsToken ==
    [][ \A r \in Requests :
          (req[r].pc = "v_copy" /\ req'[r].pc = "done") =>
              /\ verify_col' = verify_col
              /\ movies_col' = movies_col
              /\ delivered' = delivered
              /\ out' = Reply(req[r].user, "copy_failed", req[r].arg)
              /\ Redeemable(verify_col, req[r].arg, req[r].user) =>
                     RedeemDecision(FindToken(verify_col', req[r].arg),
                                    req[r].user) = "ok" ]_vars

C9_Witness ==
    /\ out.text = "copy_failed"
    /\ Redeemable(verify_col, out.token, out.to)

\* The place of a stage in the order substring, loose, external, fuzzy.
StageRank(stage) ==
    CASE stage = "substring" -> 1
      [] stage = "loose" -> 2
      [] stage = "external" -> 3
      [] stage = "fuzzy" -> 4

\* C10: in a get_search_results call the stages that query the catalog do
\* so in the order substring, loose, external suggestion, fuzzy; a stage
\* that found matches is the last one to query the catalog (a later stage
\* queries it only if every earlier stage found no match); and the page,
\* the total count and the label the call returns are those of the stage
\* that found matches.
C10_StagesUntilFirstMatch ==
    LET tr == search.trace IN
    /\ \A i, j \in DOMAIN tr :
           i < j => StageRank(tr[i].stage) < StageRank(tr[j].stage)
    /\ \A i \in DOMAIN tr : tr[i].count > 0 => i = Len(tr)
    /\ search.pc = "done" =>
           \A i \in DOMAIN tr :
               tr[i].count > 0 =>
                   /\ search.results = tr[i].page
                   /\ search.total_count = tr[i].count
                   /\ search.search_source = tr[i].label

\* The years that stand in a query as a word of their own: the runs of word
\* characters that are four digits beginning with 19 or 20.
YearTokens(query) ==
    { 1000 * DigitVal(query[i]) + 100 * DigitVal(query[i + 1])
        + 10 * DigitVal(query[i + 2]) + DigitVal(query[i + 3]) :
      i \in {k \in 1..Len(query) : /\ WordStart(query, k)
                                    /\ RunEnd(query, k) = k + 3
                                    /\ YearShape(query, k)} }

C12_FirstPageOnlyStages ==
    /\ search.offset > 0 =>
           /\ ~search.tmdb_called
           /\ search.tmdb_detected_title = <<>>
           /\ \A i \in DOMAIN search.trace :
                  search.trace[i].stage \notin {"external", "fuzzy"}
    /\ search.tmdb_detected_title # <<>> =>
           \A i \in DOMAIN search.trace : search.trace[i].stage # "fuzzy"

\* The service returned a title that matched nothing, for a query without a
\* year, and the call has returned.
C12_Witness ==
    /\ search.pc = "done"
    /\ search.raw_year = 0
    /\ search.tmdb_detected_title # <<>>
    /\ search.results = <<>>
    /\ \E i \in DOMAIN search.trace :
           search.trace[i].stage = "external" /\ search.trace[i].count = 0

\* query is a word followed by a quality tag, and the title of entry m has
\* both the word and the tag.
TagQueryOn(query, m) ==
    LET w == Words(query) IN
    /\ Len(w) = 2
    /\ Lower(w[2]) \in QUALITY_WORDS
    /\ RegexMatchI(w[1], m.title)
    /\ RegexMatchI(w[2], m.title)

\* C13 (as claimed): a first-page query made of a title word followed by a
\* quality tag, run against a catalog with an entry whose title has the word
\* and the tag, is resolved by the substring stage alone, and the page lists
\* entries with the word and the tag in non-increasing view count order,
\* leaving out only entries with no more views than those listed.
C13_TagQueryResolvedByStageOne ==
    LET hits == {m \in Range(movies_col) : TagQueryOn(search.query, m)} IN
    (search.pc = "done" /\ search.offset = 0 /\ hits # {}) =>
        /\ Len(search.trace) = 1
        /\ search.trace[1].stage = "substring"
        /\ search.trace[1].count = Cardinality(hits)
        /\ search.results # <<>>
        /\ \A k \in DOMAIN search.results :
               /\ search.results[k] \in hits
               /\ k > 1 => search.results[k - 1].views_count
                               >= search.results[k].views_count
        /\ \A m \in hits :
               m \notin Range(search.results) =>
                   \A k \in DOMAIN search.results :
                       search.results[k].views_count >= m.views_count

\* C14 (as claimed): when the external service has returned a title, the
\* external stage counts the entries whose title contains the title or whose
\* title_clean contains its normalized form, without regard to case, and
\* whose year is the query's year when the query has one; it returns the
\* first page of them by view count descending, and labels a non-empty
\* match auto-corrected with the title.
C14_ExternalTitleMatchedAsStageOne ==
    \A i \in DOMAIN search.trace :
        search.trace[i].stage = "external" =>
            LET title == search.tmdb_detected_title
                expected ==
                    {m \in Range(movies_col) :
                        /\ \/ RegexMatchI(title, m.title)
                           \/ RegexMatchI(clean_text(title), m.title_clean)
                        /\ search.raw_year # 0 => m.year = search.raw_year}
            IN  /\ search.trace[i].count = Cardinality(expected)
                /\ search.trace[i].page = Page(Find(expected), 0)
                /\ Len(search.trace[i].page) <= RESULTS_COUNT
                /\ expected # {} =>
                       search.trace[i].label = AutoCorrected(title)

\* token_set_ratio of a query and the title_clean of catalog entry i, as
\* process.extract scores it.
Similarity(query_clean, i) ==
    token_set_ratio(full_process(query_clean),
                    full_process(movies_col[i].title_clean))

\* items are, best score first, the catalog entries that score at least 80
\* against the query, each entry at most once and each of them as an item
\* of its own, truncated to limit with the highest scores kept.
EntriesAboveCutoff(items, query_clean, limit) ==
    LET above == {i \in DOMAIN movies_col :
                     Similarity(query_clean, i) >= SCORE_CUTOFF}
        n == Len(items)
    IN  /\ n = Min(limit, Cardinality(above))
        /\ \A k \in 2..n : items[k - 1].score >= items[k].score
        /\ \E entry \in [1..n -> above] :
               /\ \A j, k \in 1..n : entry[j] = entry[k] => j = k
               /\ \A k \in 1..n :
                      items[k] = Suggestion(movies_col[entry[k]],
                                            Similarity(query_clean, entry[k]))
               /\ \A i \in above :
                      (\A k \in 1..n : entry[k] # i) =>
                          \A k \in 1..n :
                              items[k].score >= Similarity(query_clean, i)

\* C15 (as claimed): find_corrected_matches returns, best score first, the
\* entries that score at least 80, each catalog entry at most once and
\* each of them as an item of its own, truncated to the limit with the
\* highest scores kept.
C15_FuzzyReturnsEntriesAboveCutoff ==
    fuzz.pc = "done" =>
        EntriesAboveCutoff(fuzz.out, fuzz.query_clean, fuzz.limit)

\* C16 (as claimed): a first-page call for a query without a year whose
\* substring and loose stages found nothing, and whose request to the title
\* service failed, returns normally; its last stage is the fuzzy stage and
\* its page holds the entries that score at least 80.
C16_ServiceFailureFallsToFuzzy ==
    ( /\ search.pc = "done"
      /\ search.offset = 0
      /\ search.raw_year = 0
      /\ search.tmdb_called
      /\ search.tmdb_detected_title = <<>> ) =>
        /\ Len(search.trace) = 3
        /\ search.trace[1].stage = "substring" /\ search.trace[1].count = 0
        /\ search.trace[2].stage = "loose" /\ search.trace[2].count = 0
        /\ search.trace[3].stage = "fuzzy"
        /\ EntriesAboveCutoff(search.results, search.cleaned_query,
                              RESULTS_COUNT)

\* C17 (as claimed): clean_text is idempotent: for every caption, cleaning
\* the cleaned caption gives the cleaned caption again.
C17_CleanTextIdempotent ==
    norm.pc = "twice" => norm.twice = norm.once

\* C18: a result message rendered with total count T and offset o shows
\* page floor(o / P) + 1 of ceil(T / P), P being the page size; it has a
\* previous button exactly when o > 0 and a next button exactly when
\* o + P < T; and a press of next is evaluated at offset o + P, a press of
\* previous at max(0, o - P): the page that answers it is rendered with
\* that offset and holds the entries ranked from there on.
C18_PageIndicatorAndButtons ==
    /\ [](\A u \in Subscribers :
            pages[u].shown = "results" =>
                LET T == pages[u].total_count
                    o == pages[u].offset
                IN  /\ \E n \in 0..o :
                           /\ n * RESULTS_COUNT <= o
                           /\ o < (n + 1) * RESULTS_COUNT
                           /\ pages[u].current_page = n + 1
                    /\ \E n \in 0..T :
                           /\ n * RESULTS_COUNT >= T
                           /\ n = 0 \/ (n - 1) * RESULTS_COUNT < T
                           /\ pages[u].total_pages = n
                    /\ pages[u].prev # <<>> <=> o > 0
                    /\ pages[u].next # <<>> <=> o + RESULTS_COUNT < T)
    /\ [][ (cb.pc = "p_search" /\ cb'.pc = "done") =>
               LET o == pages[cb.user].offset
                   at == IF cb.kind = "next" THEN o + RESULTS_COUNT
                         ELSE IF o > RESULTS_COUNT THEN o - RESULTS_COUNT
                         ELSE 0
                   ranked == SortDesc(Find(DirectFilter(cb.query, 0)),
                                      "views_count")
               IN  /\ cb.kind \in {"next", "prev"}
                   /\ cb.new_offset = at
                   /\ pages'[cb.user] # pages[cb.user] =>
                          /\ pages'[cb.user].offset = at
                          /\ ranked # <<>> =>
                                 \A k \in DOMAIN pages'[cb.user].ids :
                                     pages'[cb.user].ids[k] =
                                         ranked[at + k].message_id ]_vars

\* The last page of a result whose total count is not a multiple of the
\* page size: page 3 of 3.
C18_Witness ==
    \E u \in Subscribers :
        /\ pages[u].shown = "results"
        /\ pages[u].offset = 2 * RESULTS_COUNT
        /\ pages[u].total_count % RESULTS_COUNT # 0
        /\ pages[u].current_page = 3
        /\ pages[u].total_pages = 3
        /\ cb.kind = "next"

\* The entries of the catalog, as it is now, whose title or title_clean
\* contains the query, without regard to case.
Containing(query) ==
    {m \in Range(movies_col) :
        \/ IsSubstr(Lower(query), Lower(m.title))
        \/ IsSubstr(Lower(query), Lower(m.title_clean))}

\* C19: a search saves the text typed as the subscriber's last_query before
\* get_search_results runs; and a next, previous or back request runs
\* get_search_results on the subscriber's last_query as it is then, against
\* the catalog as it is then: the page it renders lists entries of that
\* catalog only and, for a query without a year that entries contain, its
\* total count is the number of entries that contain the query now.
C19_SearchesRerunOnCurrentState ==
    /\ [][ \A u \in Subscribers, text \in SessionQueries :
               SearchMsg(u, text) =>
                   /\ users_col'[u] = text
                   /\ cb'.pc = "s_search"
                   /\ pages' = pages ]_vars
    /\ [](cb.pc = "s_search" => users_col[cb.user] = cb.query)
    /\ [][ (cb.pc \in {"p_search", "b_search"} /\ cb'.pc = "done") =>
               /\ cb.query = users_col[cb.user]
               /\ pages'[cb.user] # pages[cb.user] =>
                      /\ \A k \in DOMAIN pages'[cb.user].ids :
                             \E m \in Range(movies_col) :
                                 m.message_id = pages'[cb.user].ids[k]
                      /\ (Containing(cb.query) # {}
                             /\ YearTokens(cb.query) = {}) =>
                             pages'[cb.user].total_count =
                                 Cardinality(Containing(cb.query))
                      /\ (cb.pc = "b_search" /\ movies_col = <<>>) =>
                             pages'[cb.user].total_count = 0 ]_vars

\* A back request has rendered an empty page: the menu it came from was
\* reached from a page with results, and the catalog was emptied since.
C19_Witness ==
    /\ cb.kind = "back"
    /\ cb.pc = "done"
    /\ movies_col = <<>>
    /\ pages[cb.user].shown = "results"
    /\ pages[cb.user].total_count = 0
    /\ pages[cb.user].ids = <<>>

RECURSIVE Flat(_)
Flat(batches) ==
    IF batches = <<>> THEN <<>> ELSE Head(batches) \o Flat(Tail(batches))

\* C21: the batches of a scan are runs of at most batch_size ids; put end
\* to end they count down from last_msg_id one by one, so no id is in two
\* batches and a later batch holds lower ids; and when the scan is done
\* they have reached id 1, so every id of 1..last_msg_id is in one batch.
C21_BatchesPartitionIdRange ==
    \A s \in Scanners :
        LET sc == scan[s]
            all == Flat(sc.batches)
        IN  /\ \A b \in DOMAIN sc.batches : Len(sc.batches[b]) \in 1..batch_size
            /\ \A n \in DOMAIN all : all[n] = sc.last_msg_id - n + 1
            /\ sc.pc = "done" =>
                   /\ sc.last_msg_id >= 1
                   /\ Len(all) = sc.last_msg_id
                   /\ all[Len(all)] = 1

\* A scan of three batches, the last of them short, is done.
C21_Witness ==
    /\ scan[1].pc = "done"
    /\ scan[1].last_msg_id = 2 * batch_size + 1
    /\ Len(scan[1].batches) = 3
    /\ Len(scan[1].batches[3]) = 1

\* C22: a FloodWait of get_messages is followed by one more call for the
\* same ids and no batch is fetched more than twice; a fetch that fails
\* takes the scan to the next batch (or to its end) with the counts as
\* they were; whatever fails, the counts never go down during a scan, a
\* scan that is done has built every batch down to id 1 and reports the
\* counts it holds, and every scan started is done in the end.
C22_FailuresSkipOneBatch ==
    /\ [](\A s \in Scanners : scan[s].fetches <= 2)
    /\ [][ \A s \in Scanners :
             LET sc == scan[s]
                 nx == scan'[s]
             IN  /\ (sc.pc = "fetch" /\ nx.pc = "refetch") =>
                        /\ nx.ids = sc.ids
                        /\ nx.batches = sc.batches
                        /\ nx.fetches = 1
                 /\ (sc.pc = "refetch" /\ nx # sc) =>
                        /\ sc.fetches = 1
                        /\ nx.pc # "refetch"
                        /\ nx.batches = sc.batches => nx.fetches = 2
                 /\ (sc.pc \in {"fetch", "refetch"} /\ nx.pc \in {"fetch", "done"}) =>
                        /\ Counts(nx) = Counts(sc)
                        /\ movies_col' = movies_col
                        /\ nx.pc = "fetch" =>
                               /\ nx.i = sc.i - batch_size
                               /\ Len(nx.batches) = Len(sc.batches) + 1
                        /\ nx.pc = "done" => sc.i <= batch_size
                 /\ nx.run = sc.run =>
                        /\ nx.total_indexed >= sc.total_indexed
                        /\ nx.already_exists >= sc.already_exists
                        /\ nx.total_skipped >= sc.total_skipped ]_vars
    /\ [](\A s \in Scanners :
             scan[s].pc = "done" =>
                 /\ scan[s].report = Counts(scan[s])
                 /\ Len(scan[s].batches) * batch_size >= scan[s].last_msg_id)
    /\ \A s \in Scanners :
           (scan[s].pc \notin {"idle", "done"}) ~> (scan[s].pc = "done")

\* A scan of three batches is done with two films saved and one batch
\* lost to a failed fetch.
C22_Witness ==
    /\ scan[1].pc = "done"
    /\ scan[1].run = 1
    /\ scan[1].faulted
    /\ Len(scan[1].batches) = 3
    /\ scan[1].report = <<2, 0, 1>>
    /\ Len(movies_col) = 2

\* The message carries media and a caption or text that is not empty.
MediaWithText(message) ==
    ~message.empty /\ message.media /\ message.text # <<>>

C25_EveryMediaMessageOfBatchIndexed ==
    \A s \in Scanners :
        (scan[s].pc = "sleep" /\ ~scan[s].faulted) =>
            \A n \in DOMAIN scan[s].messages :
                MediaWithText(scan[s].messages[n]) =>
                    Exists(movies_col, CHANNEL_ID, scan[s].ids[n])

\* C26: a scan of three batches or more in which no call raised has
\* written the counts to the status message at least once by the time it
\* is done.
C26_ProgressRenderedBeforeCompletion ==
    \A s \in Scanners :
        (scan[s].pc = "done" /\ ~scan[s].faulted
            /\ Len(scan[s].batches) >= 3) =>
            scan[s].rendered >= 1

\* C24: the catalog holds at most one entry for a channel and a message
\* id.
C24_OneEntryPerMessage ==
    \A m, n \in DOMAIN movies_col :
        (/\ movies_col[m].chat_id = movies_col[n].chat_id
         /\ movies_col[m].message_id = movies_col[n].message_id) => m = n

\* C27: while broadcast_messages runs, at most SEMAPHORE subscribers have
\* their send in progress, a send waiting out the sleep before its retry
\* included, however many worker tasks have been created.
C27_SendsInProgressWithinSemaphore ==
    bcast.kind = "auto" =>
        Cardinality({u \in Recipients :
                        /\ bcast.worker[u].calls >= 1
                        /\ bcast.worker[u].pc # "done"}) <= SEMAPHORE

\* The semaphore is used up, one of its holders sleeps before the retry,
\* and a third worker task waits.
C27_Witness ==
    /\ bcast.kind = "auto"
    /\ Cardinality(InFlight(bcast)) = SEMAPHORE
    /\ \E u \in Recipients : bcast.worker[u].pc = "sleep"
    /\ \E u \in Recipients : bcast.worker[u].pc = "queued"

\* The subscribers a broadcast has removed from the users collection.
Removed == Recipients \ user_ids

\* C28: when a broadcast is done every subscriber has been sent to, and
\* the subscribers counted as success, those counted as failed and those
\* removed as unreachable add up to the number of subscribers.
C28_OutcomeCountsAddUp ==
    bcast.pc = "done" =>
        /\ \A u \in Recipients : bcast.worker[u].calls >= 1
        /\ bcast.success + bcast.failed + Cardinality(Removed) =
               bcast.total_users

\* C29: the send function is called at most twice for a subscriber; the
\* second call comes only after the first raised FloodWait and the sleep
\* is over; when the second call raises, the subscriber is counted as
\* failed, and a subscriber whose send is settled is not sent to again.
C29_OneRetryAfterFloodWait ==
    /\ [](\A u \in Recipients :
             LET w == bcast.worker[u]
             IN  /\ w.calls <= 2
                 /\ w.calls = 2 => (w.first = "FloodWait" /\ w.slept))
    /\ [][ \A u \in Recipients :
             LET w == bcast.worker[u]
                 nx == bcast'.worker[u]
             IN  /\ nx.calls > w.calls =>
                        \/ w.calls = 0
                        \/ w.calls = 1 /\ w.pc = "sleep" /\ w.first = "FloodWait"
                 /\ (w.pc = "resend" /\ nx # w /\ nx.last # "ok") =>
                        /\ nx.pc = "done"
                        /\ nx.counted = "failed"
                        /\ bcast'.failed = bcast.failed + 1
                 /\ w.pc = "done" => nx = w ]_vars

\* A subscriber's second send has raised and the subscriber is counted as
\* failed.
C29_Witness ==
    \E u \in Recipients :
        /\ bcast.worker[u].pc = "done"
        /\ bcast.worker[u].calls = 2
        /\ bcast.worker[u].first = "FloodWait"
        /\ bcast.worker[u].last \in Unreachable
        /\ bcast.worker[u].counted = "failed"

\* C30: when a broadcast is done, the subscribers removed from the users
\* collection are those whose last send raised an error of the
\* unreachable class.
C30_UnreachableSubscribersRemoved ==
    bcast.pc = "done" =>
        \A u \in Recipients :
            (bcast.worker[u].last \in Unreachable) <=> (u \notin user_ids)

\* The subscribers a send_worker task was created for.
Dispatched(b) == {u \in Recipients : b.worker[u].pc # "none"}

\* C31: broadcast_messages completes once every send has resolved; the
\* final summary is written once, and only when success + failed is the
\* number of sends dispatched; after it no progress text is written and
\* the reporter task ends, also when it is cancelled during an edit or
\* when fewer subscribers were dispatched than were counted.
C31_ReporterStopsWithFinalSummary ==
    /\ (bcast.pc = "running" /\ bcast.cursor = <<>> /\ ActiveTasks(bcast) = {})
           ~> (bcast.pc = "done")
    /\ [](bcast.pc = "done" =>
             /\ ActiveTasks(bcast) = {}
             /\ bcast.success + bcast.failed = Cardinality(Dispatched(bcast))
             /\ bcast.report = <<bcast.success, bcast.failed>>)
    /\ [][bcast.pc = "done" => bcast'.report = bcast.report]_vars
    /\ [](~bcast.late)
    /\ (bcast.pc = "done") ~> (bcast.reporter = "ended")

\* C32: a notification and a /broadcast that go to the same subscribers
\* and get the same outcome from every send count every subscriber in the
\* same class and leave the same subscribers in the users collection.
C32_SameEngine ==
    (/\ bcast.pc = "done"
     /\ runs # <<>>
     /\ Dispatched(bcast) = Dispatched(runs[1])
     /\ \A u \in Recipients :
            /\ bcast.worker[u].first = runs[1].worker[u].first
            /\ bcast.worker[u].last = runs[1].worker[u].last)
    => /\ user_ids = runs[1].user_ids
       /\ \A u \in Recipients :
              /\ bcast.worker[u].calls = runs[1].worker[u].calls
              /\ bcast.worker[u].counted = runs[1].worker[u].counted

\* C33: a notification is started for a post exactly when save_post has
\* inserted the post's entry and read global_notify as on; a post whose
\* entry is in the catalog already is not inserted and starts none; and
\* the notification goes to the subscribers whose notify is not False
\* when the cursor is read.
C33_NotificationPerNewEntry ==
    /\ [](post.pc = "done" =>
             /\ post.started <= 1
             /\ (post.task \/ post.started = 1) <=>
                    (post.created /\ post.setting = "on"))
    /\ [][ /\ (post.pc = "p_find" /\ post' # post
                /\ Exists(movies_col, CHANNEL_ID, post.id)) =>
                   (post'.pc = "done" /\ ~post'.created /\ movies_col' = movies_col)
           /\ (post'.created /\ ~post.created /\ post'.id = post.id) =>
                   /\ Len(movies_col') = Len(movies_col) + 1
                   /\ movies_col'[Len(movies_col')].message_id = post.id
                   /\ post'.setting = "none"
           /\ (post'.setting # post.setting /\ post'.id = post.id) =>
                   post'.setting = OnOff(global_notify)
           /\ post'.started > post.started =>
                   (post.task /\ post.created /\ post.setting = "on")
           /\ (bcast.pc = "idle" /\ bcast'.pc # "idle") =>
                   /\ post'.started > post.started
                   /\ bcast'.total_users =
                          Cardinality({u \in user_ids : notify[u] # "False"})
           /\ (bcast.pc = "counted" /\ bcast'.pc = "running") =>
                   Range(bcast'.cursor) = {u \in user_ids : notify[u] # "False"}
         ]_vars

\* The notification of a new post has read its subscribers, one of them
\* without a notify field, after another was deleted.
C33_Witness ==
    /\ post.started = 1
    /\ post.created
    /\ bcast.pc = "running"
    /\ Len(bcast.cursor) < bcast.total_users
    /\ \E u \in Range(bcast.cursor) : notify[u] = "absent"

\* ------------------------------------------------- the fuzzy stage's pool
\* Mutant of Blocking: find_corrected_matches is called in the coroutine.
MutBlockingOnLoop(p) == {r \in Searchers : p[r] = "running"}

\* The comparisons that occupy the thread of the event loop: none, line
\* 606 hands find_corrected_matches to thread_pool_executor.
Blocking(p) == {}

\* A step of a coroutine: the event loop runs it, on its one thread.
OnLoop(A) == Blocking(pool) = {} /\ A

\* The comparisons a worker thread of the pool is running.
Running(p) == {r \in Searchers : p[r] = "running"}

\* ThreadPoolExecutor(max_workers=5), line 395: a work item is taken when
\* fewer than max_workers threads are busy.
HasIdleWorker(p) == Cardinality(Running(p)) < max_workers

\* get_search_results, lines 603-604: nothing found at offset 0, the
\* search asks the collection for the titles.
FuzzyBegin(r) ==
    /\ pool[r] = "idle"
    /\ pool' = [pool EXCEPT ![r] = "load"]
    /\ UNCHANGED <<gateVars, searchVars, pureVars, sessionVars, mainJobVars,
                   deletion, human, racer>>

\* lines 604-608: to_list returns and run_in_executor queues the comparison.
FuzzySubmit(r) ==
    /\ pool[r] = "load"
    /\ pool' = [pool EXCEPT ![r] = "queued"]
    /\ UNCHANGED <<gateVars, searchVars, pureVars, sessionVars, mainJobVars,
                   deletion, human, racer>>

\* A worker thread of the pool takes the comparison off the queue.
PoolTake(r) ==
    /\ pool[r] = "queued"
    /\ HasIdleWorker(pool)
    /\ pool' = [pool EXCEPT ![r] = "running"]
    /\ UNCHANGED <<gateVars, searchVars, pureVars, sessionVars, mainJobVars,
                   deletion, human, racer>>

\* find_corrected_matches returns in the worker thread (lines 501-526).
PoolReturn(r) ==
    /\ pool[r] = "running"
    /\ pool' = [pool EXCEPT ![r] = "computed"]
    /\ UNCHANGED <<gateVars, searchVars, pureVars, sessionVars, mainJobVars,
                   deletion, human, racer>>

\* lines 606-612: the coroutine gets the result of the comparison.
FuzzyResume(r) ==
    /\ pool[r] = "computed"
    /\ pool' = [pool EXCEPT ![r] = "done"]
    /\ UNCHANGED <<gateVars, searchVars, pureVars, sessionVars, mainJobVars,
                   deletion, human, racer>>

\* Searches at their fuzzy stage next to a redemption and an operator's
\* broadcast.
PoolNext ==
    \/ \E r \in Searchers :
           \/ OnLoop(FuzzyBegin(r))
           \/ OnLoop(FuzzySubmit(r))
           \/ PoolTake(r)
           \/ PoolReturn(r)
           \/ OnLoop(FuzzyResume(r))
    \/ OnLoop(StartVerified(1))
    \/ OnLoop(VerifiedFind(1))
    \/ OnLoop(StartBroadcast("operator"))
    \/ OnLoop(OpenCursor)
    \/ OnLoop(OpCopy)
    \/ \E u \in Recipients : OnLoop(OpReturn(u, "ok"))
    \/ OnLoop(OpFinish)

PoolSpec == BroadcastInit /\ [][PoolNext]_vars

ADMIN_IDS == {1}
DeleteChats == {"private", "group"}
DeleteCaptions == {<<"a", "b">>, <<"c", "d">>}
DeleteTitles == {<<"a">>}

\* The users who see a message of the chat, and so can press its buttons.
Viewers(chat) == IF chat = "group" THEN Users ELSE ADMIN_IDS

\* callback_data of lines 1212 and 1221.
ConfirmData(kind, title) == [kind |-> kind, title |-> title]

\* delete_specific_movie, lines 1188-1216: the matches are listed under a
\* confirm button; nothing is deleted.
DeleteMovieCommand(u, chat, title) ==
    /\ u \in ADMIN_IDS
    /\ \E m \in Range(movies_col) : RegexMatchI(title, m.title)
    /\ deletion' = [deletion EXCEPT
           !.issued = @ \cup {[data |-> ConfirmData("confirm_del_", title),
                               chat |-> chat]}]
    /\ UNCHANGED <<gateVars, searchVars, pureVars, sessionVars, mainJobVars,
                   pool, human, racer>>

\* delete_all_movies_command, lines 1218-1224.
DeleteAllMoviesCommand(u, chat) ==
    /\ u \in ADMIN_IDS
    /\ deletion' = [deletion EXCEPT
           !.issued = @ \cup
               {[data |-> ConfirmData("confirm_delete_all_movies", <<>>),
                 chat |-> chat]}]
    /\ UNCHANGED <<gateVars, searchVars, pureVars, sessionVars, mainJobVars,
                   pool, human, racer>>

\* callback_handler, lines 1405-1407 and 1565-1570: whoever presses the
\* confirm button, the entries whose title contains the text are deleted.
ConfirmDelPress(u, chat, title) ==
    /\ [data |-> ConfirmData("confirm_del_", title), chat |-> chat]
           \in deletion.issued
    /\ u \in Viewers(chat)
    /\ movies_col' = FilterSeq(movies_col,
           {m \in Range(movies_col) : ~RegexMatchI(title, m.title)})
    /\ deletion' = [deletion EXCEPT !.by = u]
    /\ UNCHANGED <<verify_col, verification_mode, user_last_start_time, req,
                   nextToken, delivered, out>>
    /\ UNCHANGED <<searchVars, pureVars, sessionVars, mainJobVars, pool,
                   human, racer>>

\* callback_handler, lines 1405-1407 and 1577-1579: delete_many({}).
ConfirmDeleteAllPress(u, chat) ==
    /\ [data |-> ConfirmData("confirm_delete_all_movies", <<>>),
        chat |-> chat] \in deletion.issued
    /\ u \in Viewers(chat)
    /\ movies_col' = <<>>
    /\ deletion' = [deletion EXCEPT !.by = u]
    /\ UNCHANGED <<verify_col, verification_mode, user_last_start_time, req,
                   nextToken, delivered, out>>
    /\ UNCHANGED <<searchVars, pureVars, sessionVars, mainJobVars, pool,
                   human, racer>>

\* Posts are saved, the admin asks for deletions in either chat, and the
\* users of the chat press the buttons.
DeleteNext ==
    \/ \E caption \in DeleteCaptions : SaveMovie(caption)
    \/ \E u \in Users, chat \in DeleteChats :
           \/ \E title \in DeleteTitles : DeleteMovieCommand(u, chat, title)
           \/ DeleteAllMoviesCommand(u, chat)
           \/ \E title \in DeleteTitles : ConfirmDelPress(u, chat, title)
           \/ ConfirmDeleteAllPress(u, chat)

DeleteSpec == BroadcastInit /\ [][DeleteNext]_vars

\* C35: entries leave the catalog only when an admin confirms a deletion an
\* admin asked for, and the preview deletes nothing.
C35_DeletedOnlyByAdmin ==
    /\ [][Len(movies_col') < Len(movies_col) =>
              /\ deletion'.by \in ADMIN_IDS
              /\ deletion.issued # {}]_vars
    /\ [][deletion'.issued # deletion.issued =>
              movies_col' = movies_col]_vars

\* ------------------------------------------- the owner of a page's links
\* The id of the bot's own account, and of a group it serves.
BOT_ID == 3
GROUP_ID == 4
PageSources == {"search", "page", "add_filter", "back"}

\* The chat id of user u's conversation: the user's id in a private chat.
ChatOf(u, chat) == IF chat = "group" THEN GROUP_ID ELSE u

\* The message send_results is given: the user's message for a fresh search
\* (line 1286), cq.message for a callback (lines 1498, 1543, 1555), which
\* the bot sent.  In a private chat the sender field of the bot's message
\* may be left out by the server, and the library then fills in the peer.
SourceMessages(u, chat, how) ==
    IF how = "search"
    THEN {[chat_id |-> ChatOf(u, chat), from_user |-> u]}
    ELSE {[chat_id |-> ChatOf(u, chat), from_user |-> f] :
              f \in IF chat = "group" THEN {BOT_ID} ELSE {BOT_ID, u}}

\* send_results, lines 1342-1344: user_id.
LinkOwner(msg) == IF msg.from_user # 0 THEN msg.from_user ELSE msg.chat_id

\* send_results, lines 1346-1351: the link of entry m on a page rendered for
\* user u.
RenderLink(u, chat, how, m) ==
    /\ verification_mode
    /\ m \in Range(movies_col)
    /\ nextToken < MaxTokens
    /\ nextToken' = nextToken + 1
    /\ \E msg \in SourceMessages(u, chat, how) :
           verify_col' = CreateVerificationLink(nextToken + 1, m.message_id,
                                                LinkOwner(msg))
    /\ human' = [human EXCEPT ![nextToken + 1] = u]
    /\ out' = Silent
    /\ UNCHANGED <<movies_col, verification_mode, user_last_start_time, req,
                   delivered>>
    /\ UNCHANGED <<searchVars, pureVars, sessionVars, mainJobVars, pool,
                   deletion, racer>>

\* Pages are rendered, their links verified and redeemed.
LinkNext ==
    \/ \E u \in Users, chat \in DeleteChats, how \in PageSources :
           \E m \in Range(movies_col) : RenderLink(u, chat, how, m)
    \/ \E t \in Tokens : VerifyPageOne(t)
    \/ \E t \in Tokens : VerifyPageTwo(t)
    \/ \E r \in Requests :
           \/ StartVerified(r)
           \/ VerifiedFind(r)
           \/ VerifiedCopy(r)
           \/ VerifiedDelete(r)
           \/ VerifiedInc(r)
    \/ Tick(THROTTLE_SECONDS)

LinkSpec == Init /\ [][LinkNext]_vars

\* C36: the token of every link of a page belongs to the user the page was
\* rendered for, and that user is never told the link is someone else's.
C36_LinksBelongToTheUser ==
    /\ \A d \in verify_col : d.user_id = human[d.token]
    /\ \A u \in Users, t \in Tokens :
           out = Reply(u, "not_yours", t) => u # human[t]

\* ------------------------------------------------ pages and their buttons
\* The result message page is what send_results makes of frame.
Renders(frame, page) ==
    /\ frame.results # <<>>
    /\ page.shown = "results"
    /\ page.ids = [k \in DOMAIN frame.results |-> frame.results[k].message_id]
    /\ page.total_count = frame.total_count

\* The page user u looks at is a page of u's last_query over the catalog as
\* it is now: neither has changed in a way the page would show.
OnDisplay(u) ==
    \E title \in TitlesFor(users_col[u], pages[u].offset) :
        Renders(get_search_results(users_col[u], pages[u].offset, title),
                pages[u])

\* C37: a press of NEXT > on a page that is on display and offers it is
\* answered with the page of the next offset, which has entries.
C37_NextPageHasEntries ==
    [][(/\ cb.pc = "p_search"
        /\ cb.kind = "next"
        /\ cb'.pc = "done"
        /\ pages[cb.user].next # <<>>
        /\ cb.current_offset = pages[cb.user].offset
        /\ cb.query = users_col[cb.user]
        /\ OnDisplay(cb.user))
       => /\ cb'.answer # "no_more_results"
          /\ pages'[cb.user].ids # <<>>
          /\ pages'[cb.user].offset = cb.new_offset]_vars

\* The catalog entry with message id mid carries the filter word.
Carries(mid, filter_text) ==
    \E m \in Range(movies_col) :
        /\ m.message_id = mid
        /\ \/ RegexMatchI(filter_text, m.title)
           \/ RegexMatchI(filter_text, m.title_clean)

\* C38: the page an add-filter press renders shows only entries whose title
\* or normalized title contains the filter word.
C38_FilteredPageCarriesFilter ==
    [][(/\ cb.pc = "f_search"
        /\ cb'.pc = "done"
        /\ pages'[cb.user].shown = "results")
       => \A k \in DOMAIN pages'[cb.user].ids :
              Carries(pages'[cb.user].ids[k], cb.filter_text)]_vars

\* --------------------------------------------- two handlers of one user
\* The library runs handlers as concurrent tasks (Client of line 398): a
\* second update of the subscriber is handled while the first handler is
\* at an await.

\* The add-filter interaction of user u has read last_query and not yet
\* finished.
FilterInProgress(u) ==
    /\ cb.user = u
    /\ cb.kind = "add_filter"
    /\ cb.pc \in {"f_update", "f_search", "f_revert"}

\* search, lines 1260-1276, in the second handler.
RaceSearchMsg(u, text) ==
    /\ racer.pc \in {"idle", "done"}
    /\ Strip(text) # <<>>
    /\ users_col' = SetLastQuery(users_col, u, Strip(text))
    /\ racer' = [racer EXCEPT !.pc = "s_search", !.kind = "search",
                              !.query = Strip(text), !.answer = "none",
                              !.during = FilterInProgress(u),
                              !.stale = FALSE]
    /\ UNCHANGED <<gateVars, searchVars, pureVars, pages, cb, mainJobVars,
                   pool, deletion, human>>

\* What the second handler has done once get_search_results returned frame
\* (lines 1282-1287 and 1496-1500).
RacerAfter(frame, offset, header, miss) ==
    IF frame.results # <<>>
    THEN [racer EXCEPT !.pc = "done",
                       !.page = send_results(frame.results, frame.total_count,
                                             offset, header)]
    ELSE [racer EXCEPT !.pc = "done", !.answer = miss]

RaceSearchRun(u, title) ==
    /\ racer.pc = "s_search"
    /\ title \in TitlesFor(racer.query, 0)
    /\ racer' = RacerAfter(get_search_results(racer.query, 0, title), 0,
                    Header("found", <<>>,
                        get_search_results(racer.query, 0, title).search_source),
                    "not_found")
    /\ UNCHANGED <<gateVars, searchVars, pureVars, sessionVars, mainJobVars,
                   pool, deletion, human>>

\* callback_handler, lines 1480-1492, in the second handler: NEXT > is
\* pressed on the result message of the second handler's search.
RacePagePress(u) ==
    /\ racer.pc \in {"idle", "done"}
    /\ racer.page.next # <<>>
    /\ users_col[u] # <<>>
    /\ racer' = [racer EXCEPT
           !.pc = "p_search", !.kind = "next", !.query = users_col[u],
           !.answer = "none", !.during = FALSE,
           !.stale = FilterInProgress(u) /\ cb.pc = "f_revert"
                         /\ users_col[u] = cb.query,
           !.new_offset =
               NewOffset("next", ParseInt(Split(racer.page.next, "_")[3]))]
    /\ UNCHANGED <<gateVars, searchVars, pureVars, sessionVars, mainJobVars,
                   pool, deletion, human>>

RacePageRun(u, title) ==
    /\ racer.pc = "p_search"
    /\ title \in TitlesFor(racer.query, racer.new_offset)
    /\ racer' = RacerAfter(
                    get_search_results(racer.query, racer.new_offset, title),
                    racer.new_offset, Header("results", racer.query, NoLabel),
                    "no_more_results")
    /\ UNCHANGED <<gateVars, searchVars, pureVars, sessionVars, mainJobVars,
                   pool, deletion, human>>

\* One handler searches and filters, the other searches and pages.
RaceNext ==
    \/ \E u \in Subscribers, text \in SessionQueries : SearchMsg(u, text)
    \/ \E title \in TitlesFor(cb.query, 0) : SearchRun(title)
    \/ \E u \in Subscribers : FilterMenu(u)
    \/ \E u \in Subscribers, data \in FilterButtons : AddFilterPress(u, data)
    \/ AddFilterUpdate
    \/ \E title \in TitlesFor(cb.query, 0) : AddFilterRun(title)
    \/ AddFilterRevert
    \/ \E u \in Subscribers :
           \/ \E text \in SessionQueries : RaceSearchMsg(u, text)
           \/ \E title \in TitlesFor(racer.query, 0) : RaceSearchRun(u, title)
           \/ RacePagePress(u)
           \/ \E title \in TitlesFor(racer.query, racer.new_offset) :
                  RacePageRun(u, title)

RaceSpec == SessionInit /\ [][RaceNext]_vars

\* C39: when a search issued during an add-filter interaction that found
\* nothing and that interaction are both over, last_query is the query of
\* the search; and no page request reads a filtered query that has found
\* nothing.
C39_SearchNotLostToRevert ==
    /\ [][(/\ racer'.kind = "search" /\ racer'.during /\ racer'.pc = "done"
           /\ cb'.kind = "add_filter" /\ cb'.pc = "done"
           /\ cb'.answer = "no_filter_results"
           /\ (racer.pc # "done" \/ cb.pc # "done"))
          => users_col'[cb'.user] = racer'.query]_vars
    /\ [](~racer.stale)

\* ------------------------------------------------- the /start rate limit
\* Request r receives its /start in this step, and returns at once (it is
\* dropped) or goes on (it is accepted).
Dropped(r) == req[r].pc = "idle" /\ req'[r] = DoneReq
Accepted(r) == req[r].pc = "idle" /\ req'[r].pc \notin {"idle", "done"}

\* C40: a /start is dropped only inside the two seconds after an accepted
\* /start of its user, and then nothing changes and nothing is replied; an
\* accepted /start comes no sooner than two seconds after the last one, and
\* it restarts the window and upserts the subscriber.
C40_StartThrottle ==
    [][\A r \in Requests :
           /\ Dropped(r) =>
                  /\ \E u \in DOMAIN user_last_start_time :
                         user_last_start_time[u] < THROTTLE_SECONDS
                  /\ UNCHANGED <<user_last_start_time, user_ids, notify,
                                 verify_col, nextToken, delivered, movies_col>>
                  /\ out' = Silent
           /\ Accepted(r) =>
                  /\ req'[r].user \in DOMAIN user_last_start_time =>
                         user_last_start_time[req'[r].user] >= THROTTLE_SECONDS
                  /\ user_last_start_time'[req'[r].user] = 0
                  /\ req'[r].user \in user_ids'
                  /\ notify'[req'[r].user] = "True"]_vars

\* A redemption is at its first step in its user's window, with the token
\* verified, and the request after it is over already.
C40_Witness ==
    /\ req[1].pc = "v_find"
    /\ req[2] = DoneReq
    /\ DOMAIN user_last_start_time = {req[1].user}
    /\ user_last_start_time[req[1].user] < THROTTLE_SECONDS
    /\ \E d \in verify_col : d.token = req[1].arg /\ d.step = 2
    /\ out = Silent

====
